---- MODULE Spec2Model ----
(***************************************************************************)
(* Model of the Codex app-server client (CodexAppServerClient): process    *)
(* supervision, JSON-RPC request/response correlation, the turn registry   *)
(* and its timers.  One action is one synchronous segment of the code: an  *)
(* event handler, or the part of an async function between two awaits.     *)
(***************************************************************************)
EXTENDS Integers, Sequences, FiniteSets, TLC

\* ------------------------------------------------------------------ bounds
\* Number of API calls (start / threadStart / threadResume / runTurn) made.
NumCallers == 2
\* Number of processes the client may spawn (start attempts).
MaxSpawns == 2
\* Number of stop() calls.
MaxStops == 1
\* Number of text updates (delta / item completed) applied to one tracker.
MaxUpdates == 3

Callers == 1..NumCallers
Attempts == 1..MaxSpawns
\* Every id the client can allocate, and one it never allocates.
MaxId == MaxSpawns + NumCallers
WireIds == 1..(MaxId + 1)

\* ------------------------------------------------------------ wire values
TurnIds == {"u1", "u2"}
ThreadIds == {"t1"}
Items == {"i1", "i2"}

\* A text is a sequence of characters; " " is the only whitespace character.
NoText == << >>

\* String.prototype.trim, as used on the accumulated text.
RECURSIVE TrimStart(_)
TrimStart(s) ==
  IF s = << >> THEN s
  ELSE IF Head(s) = " " THEN TrimStart(Tail(s)) ELSE s

RECURSIVE TrimEnd(_)
TrimEnd(s) ==
  IF s = << >> THEN s
  ELSE IF s[Len(s)] = " " THEN TrimEnd(SubSeq(s, 1, Len(s) - 1)) ELSE s

Trim(s) == TrimEnd(TrimStart(s))

\* String(id) for a non-negative integer id.
Digit(d) ==
  CASE d = 0 -> "0" [] d = 1 -> "1" [] d = 2 -> "2" [] d = 3 -> "3"
    [] d = 4 -> "4" [] d = 5 -> "5" [] d = 6 -> "6" [] d = 7 -> "7"
    [] d = 8 -> "8" [] OTHER -> "9"

RECURSIVE StringOf(_)
StringOf(n) == IF n < 10 THEN Digit(n) ELSE StringOf(n \div 10) \o Digit(n % 10)

\* A JSON-RPC id is a number or a string.
NumId(n) == [t |-> "num", n |-> n, s |-> ""]
StrId(s) == [t |-> "str", n |-> 0, s |-> s]
NoId == [t |-> "none", n |-> 0, s |-> ""]

normalizeId(id) == IF id.t = "num" THEN StringOf(id.n) ELSE id.s

\* The value of a Response's result field, as far as the client inspects it:
\* a falsy value, an object without ids, {turn:{id}} or {thread:{id}}.
RNull == [k |-> "null", id |-> ""]
RObj == [k |-> "obj", id |-> ""]
RTurn(u) == [k |-> "turn", id |-> u]
RThread(t) == [k |-> "thread", id |-> t]
Results == {RNull, RObj} \cup {RTurn(u) : u \in TurnIds \cup {""}}
             \cup {RThread(t) : t \in ThreadIds}

\* The value of a Response's error field: an object with or without a
\* message, or a falsy value (null).
EMsg(m) == [k |-> "obj", hasMsg |-> TRUE, msg |-> m]
ENoMsg == [k |-> "obj", hasMsg |-> FALSE, msg |-> ""]
ENull == [k |-> "null", hasMsg |-> FALSE, msg |-> ""]
Errors == {EMsg("boom"), ENoMsg, ENull}

\* Error messages raised by the client.
ErrUnknownRpc == "Unknown JSON-RPC error"
ErrNotRunning == "codex app-server not running"
ErrStdout == "codex app-server stdout unavailable"
ErrInitialize == "codex app-server initialize failed"
ErrThreadStart == "codex app-server thread/start missing thread id"
ErrThreadResume == "codex app-server thread/resume missing thread id"
ErrTurnStart == "codex app-server turn/start missing turn id"
ErrTimeout == "codex turn timeout"
ErrTurnFailed == "codex turn failed"

\* ------------------------------------------------------------- messages
\* params of a notification: every field the handlers read.  "" stands for
\* an absent (or empty, equally falsy) string field.
NoParams ==
  [turnId |-> "", itemId |-> "", deltaIsString |-> FALSE, delta |-> NoText,
   hasItem |-> FALSE, itemType |-> "", itemIdC |-> "", textIsString |-> FALSE,
   text |-> NoText, tcId |-> "", status |-> "", hasErrMsg |-> FALSE,
   errMsg |-> ""]

\* A decoded message: which of id, method, result, error are present.
Message(hasId, id, hasMethod, method, hasResult, result, hasError, error, params) ==
  [hasId |-> hasId, id |-> id, hasMethod |-> hasMethod, method |-> method,
   hasResult |-> hasResult, result |-> result, hasError |-> hasError,
   error |-> error, params |-> params]

ResultResponse(id, r) == Message(TRUE, id, FALSE, "", TRUE, r, FALSE, ENull, NoParams)
ErrorResponse(id, e) == Message(TRUE, id, FALSE, "", FALSE, RNull, TRUE, e, NoParams)
BothResponse(id, r, e) == Message(TRUE, id, FALSE, "", TRUE, r, TRUE, e, NoParams)
Notification(method, p) == Message(FALSE, NoId, TRUE, method, FALSE, RNull, FALSE, ENull, p)

DeltaParams(u, i, isStr, d) ==
  [NoParams EXCEPT !.turnId = u, !.itemId = i, !.deltaIsString = isStr, !.delta = d]
ItemParams(u, hasItem, type, i, isStr, t) ==
  [NoParams EXCEPT !.turnId = u, !.hasItem = hasItem, !.itemType = type,
                   !.itemIdC = i, !.textIsString = isStr, !.text = t]
TurnParams(u, status, hasErr, m) ==
  [NoParams EXCEPT !.tcId = u, !.status = status, !.hasErrMsg = hasErr, !.errMsg = m]

NoMessage == Message(FALSE, NoId, FALSE, "", FALSE, RNull, FALSE, ENull, NoParams)
Request(id, method) == Message(TRUE, id, TRUE, method, FALSE, RNull, FALSE, ENull, NoParams)

\* An isRpcRequest that does not look at result and error.
isRpcRequest_loose(m) == m.hasId /\ m.hasMethod

isRpcRequest(m) == m.hasId /\ m.hasMethod /\ ~m.hasResult /\ ~m.hasError
isRpcResponse(m) == m.hasId /\ (m.hasResult \/ m.hasError)
isRpcNotification(m) == ~m.hasId /\ m.hasMethod

\* A toError that does not read the error's message.
toError_generic(m) == ErrUnknownRpc

toError(m) == IF m.error.k = "obj" /\ m.error.hasMsg THEN m.error.msg ELSE ErrUnknownRpc

\* ---------------------------------------------------------------- state
VARIABLES
  child,        \* this.child: the process spawned last, 0 for null
  reader,       \* this.reader: the process whose stdout is read, 0 for null
  nextId,       \* this.nextId
  pending,      \* this.pending: key -> the call whose promise it settles
  turns,        \* this.turns: turn id -> tracker
  started,      \* this.started
  startPromise, \* this.startPromise: the start attempt it holds, 0 for null
  attempt,      \* the startInternal() calls, one per spawned process
  nspawn,       \* processes spawned so far
  nstop,        \* stop() calls so far
  call,         \* the API calls: their position and what they hold
  wire,         \* what was written to each process's stdin, in order
  opts,         \* this.opts, as far as the client reads it: autoApprove
  proc,         \* the spawned processes: alive or not, signals, child.killed
  stops,        \* the children of the stop() calls waiting their grace period
  g             \* history (ghost) variables, read by the properties only

\* The runtime around the client: its heartbeat and the timers of the event
\* loop the heartbeat arms.
VARIABLES
  timer,        \* createClawdHeartbeat's timer: a timeout handle, 0 for null
  timers,       \* the timeouts armed: set, neither fired nor cleared
  made,         \* setTimeout calls so far; handle n is the n-th call's
  runs,         \* interval runs in flight: runOnce promises tick() waits for
  wakeHandler,  \* whether runOnce is installed as the wake handler
  beat          \* the runOnce calls: their position

\* The session store of the runtime and the calls made on it.
VARIABLES
  store,        \* ClawdSessionStore.store: null until loaded, then key -> entry
  file,         \* the JSON file at storePath: key -> entry, keys as written
  opChain,      \* ClawdSessionStore.op: the chain of updates not yet settled
  task,         \* the calls on the store and ensureThread: their position
  hist          \* history: the update calls in the order they were made

sessions == <<store, file, opChain, task, hist>>

runtime == <<timer, timers, made, runs, wakeHandler, beat, sessions>>

vars == <<child, reader, nextId, pending, turns, started, startPromise,
          attempt, nspawn, nstop, call, wire, opts, proc, stops, g, runtime>>

\* The client's own fields and its callers, without the history variable.
core == <<child, reader, nextId, pending, turns, started, startPromise,
          attempt, nspawn, nstop, call, wire, opts, proc, stops>>

\* Calls on the session store the model follows.
NumTasks == 3
Tasks == 1..NumTasks

\* A session entry: threadId and lastRoute, "" for undefined.  A route's
\* channel, to and accountId are one value; updatedAtMs, which nothing
\* reads back, is left out.
Entry(t, r) == [threadId |-> t, lastRoute |-> r]
NoEntry == Entry("", "")

\* A call: where it is, the update it asked for (kind, key, val), whether
\* its update function ran, whether its promise was fulfilled and with
\* which entry; for ensureThread, the stored id it read and the id it
\* returned.
IdleTask ==
  [pc |-> "idle", kind |-> "none", key |-> << >>, val |-> "", ran |-> FALSE,
   ok |-> FALSE, out |-> NoEntry, known |-> "", got |-> ""]

\* The runtime after createClawdRuntime(), before startSchedulers(), with
\* f the content of the sessions file.
RuntimeWith(f) ==
  /\ timer = 0
  /\ timers = {}
  /\ made = 0
  /\ runs = 0
  /\ wakeHandler = FALSE
  /\ beat = [c \in Callers |-> "idle"]
  /\ store = [loaded |-> FALSE, map |-> << >>]
  /\ file = f
  /\ opChain = [queue |-> << >>, last |-> "fulfilled"]
  /\ task = [t \in Tasks |-> IdleTask]
  /\ hist = << >>

RuntimeInit == RuntimeWith(<< >>)

NoResp == [k |-> "none", result |-> RNull, msg |-> ""]
ResolvedWith(r) == [k |-> "result", result |-> r, msg |-> ""]
RejectedWith(m) == [k |-> "error", result |-> RNull, msg |-> m]

\* What an API call returned or threw.
NoOut == [k |-> "none", status |-> "", text |-> NoText, hasErr |-> FALSE,
          err |-> "", threadId |-> ""]
Threw(m) == [NoOut EXCEPT !.k = "rejected", !.err = m, !.hasErr = TRUE]
Returned == [NoOut EXCEPT !.k = "resolved"]
ReturnedThread(t) == [NoOut EXCEPT !.k = "resolved", !.threadId = t]

\* timeoutMs of runTurn: absent, or a number of milliseconds.
NoTimeout == [has |-> FALSE, ms |-> 0]
TimeoutMs(n) == [has |-> TRUE, ms |-> n]
Timeouts == {NoTimeout, TimeoutMs(0), TimeoutMs(50)}

Ops == {"start", "threadStart", "threadResume", "runTurn"}
MethodOf(op) ==
  CASE op = "threadStart" -> "thread/start"
    [] op = "threadResume" -> "thread/resume"
    [] OTHER -> "turn/start"

IdleCall ==
  [op |-> "none", tmo |-> NoTimeout, pc |-> "idle", att |-> 0, reqId |-> 0,
   wfail |-> FALSE, settles |-> 0, by |-> NoMessage, resp |-> NoResp,
   turnId |-> "", timer |-> "none", tResolves |-> 0, tRejects |-> 0,
   out |-> NoOut]

NoAttempt ==
  [pc |-> "none", reqId |-> 0, settles |-> 0, by |-> NoMessage, resp |-> NoResp,
   err |-> ""]

\* Messages written to the process.
Written(k, id, method, result, code, message) ==
  [k |-> k, id |-> id, method |-> method, result |-> result, code |-> code,
   message |-> message]
Req(id, method) == Written("request", NumId(id), method, "", 0, "")
Notif(method) == Written("notification", NoId, method, "", 0, "")
ResultReply(id, result) == Written("result", id, "", result, 0, "")
ErrorReply(id, code, message) == Written("error", id, "", "", code, message)

\* History: missed = runTurn calls that lost a notification of their turn;
\* sinceStop / initsSinceStop = processes spawned / initialize requests
\* written since the last stop(); log[c] = the text updates applied to the
\* tracker of call c, in order; replies = replies written to inbound requests;
\* inert = the notifications (turn id, whether it was a turn/completed)
\* handled after the tracker of that turn id was destroyed; idAtStop = the
\* value of nextId at the last stop(); discarded = the kinds of Responses
\* dropped for want of a pending entry, and dropped = the lines dropped
\* unparsed (their kind and the value of nextId then), both kept when audit
\* is set (by the specifications whose properties read them).
NoGhost == [missed |-> {}, sinceStop |-> 0, initsSinceStop |-> 0,
            log |-> [c \in Callers |-> << >>], replies |-> 0, inert |-> {},
            idAtStop |-> 0, audit |-> FALSE, discarded |-> {}, dropped |-> {},
            raised |-> {}]

\* A process the client spawned, as the client and the system see it:
\* whether it has exited, child.killed, and the signals delivered to it.
NoProc == [state |-> "none", killed |-> FALSE, signals |-> << >>]
Spawned == [NoProc EXCEPT !.state = "alive"]

\* child.kill(signal): the signal is sent, and child.killed set, while the
\* process has not exited; on an exited process kill() returns false and
\* changes nothing.
kill(p, signal) ==
  IF p.state = "alive"
  THEN [p EXCEPT !.killed = TRUE, !.signals = Append(@, signal)]
  ELSE p

ClientInit ==
  /\ child = 0
  /\ reader = 0
  /\ nextId = 1
  /\ pending = << >>
  /\ turns = << >>
  /\ started = FALSE
  /\ startPromise = 0
  /\ attempt = [a \in Attempts |-> NoAttempt]
  /\ nspawn = 0
  /\ nstop = 0
  /\ call = [c \in Callers |-> IdleCall]
  /\ wire = [a \in Attempts |-> << >>]
  /\ opts = [autoApprove |-> FALSE]
  /\ proc = [a \in Attempts |-> NoProc]
  /\ stops = {}
  /\ g = NoGhost

Init == ClientInit /\ RuntimeInit

\* Map update and removal (Map.set, Map.delete).
MapSet(m, k, v) == [x \in DOMAIN m \cup {k} |-> IF x = k THEN v ELSE m[x]]
MapDelete(m, k) == [x \in DOMAIN m \ {k} |-> m[x]]

CallerOwner(c) == <<"caller", c>>
AttemptOwner(a) == <<"attempt", a>>

\* An id counter that is read and not advanced.
NextIdAfter_stuck(id) == id

\* const id = this.nextId++: the counter after an allocation.
NextIdAfter(id) == id + 1

\* ---------------------------------------------------------- start, stop
\* A start() that does not look at the attempt in flight.
startDecision_noJoin == IF started THEN "return" ELSE "spawn"

\* start(): return at once when started, join the attempt in flight, or
\* begin a new one.
startDecision ==
  IF started THEN "return"
  ELSE IF startPromise # 0 THEN "join"
  ELSE "spawn"

\* startInternal() up to its first await: spawn, attach the reader, write
\* the initialize request.  stdoutOk: whether the child has a stdout stream.
startInternal(a, stdoutOk) ==
  /\ child' = a
  /\ proc' = [proc EXCEPT ![a] = Spawned]
  /\ nspawn' = a
  /\ startPromise' = a
  /\ IF ~stdoutOk
     THEN /\ attempt' = [attempt EXCEPT ![a] =
                           [NoAttempt EXCEPT !.pc = "rejected", !.err = ErrStdout]]
          /\ UNCHANGED <<reader, nextId, pending, wire>>
          /\ g' = [g EXCEPT !.sinceStop = @ + 1]
     ELSE /\ reader' = a
          /\ nextId' = NextIdAfter(nextId)
          /\ pending' = MapSet(pending, StringOf(nextId), AttemptOwner(a))
          /\ wire' = [wire EXCEPT ![a] = Append(@, Req(nextId, "initialize"))]
          /\ attempt' = [attempt EXCEPT ![a] =
                           [NoAttempt EXCEPT !.pc = "awaitReq", !.reqId = nextId]]
          /\ g' = [g EXCEPT !.sinceStop = @ + 1, !.initsSinceStop = @ + 1]

\* An API call up to the end of its "await this.start()".
Enter(c, op, tmo) ==
  /\ call[c].pc = "idle"
  /\ \A b \in Callers : b < c => call[b].pc # "idle"
  /\ LET d == startDecision IN
     /\ d = "spawn" => nspawn < MaxSpawns
     /\ call' = [call EXCEPT ![c] =
                   [@ EXCEPT !.op = op, !.tmo = tmo, !.pc = "awaitStart",
                             !.att = IF d = "return" THEN 0
                                     ELSE IF d = "join" THEN startPromise
                                     ELSE nspawn + 1]]
     /\ IF d = "spawn"
        THEN \E stdoutOk \in BOOLEAN : startInternal(nspawn + 1, stdoutOk)
        ELSE UNCHANGED <<child, reader, nextId, pending, attempt, nspawn,
                         startPromise, wire, g, proc>>
  /\ UNCHANGED <<turns, started, nstop, opts, stops>>
  /\ UNCHANGED runtime

\* A stop() that also forgets the requests and the turns in flight.
stop_forgets(maxStops) ==
  /\ nstop < maxStops
  /\ nstop' = nstop + 1
  /\ started' = FALSE
  /\ startPromise' = 0
  /\ reader' = 0
  /\ child' = 0
  /\ pending' = << >>
  /\ turns' = << >>
  /\ IF child # 0
     THEN /\ proc' = [proc EXCEPT ![child] = kill(@, "SIGTERM")]
          /\ stops' = stops \cup {child}
     ELSE UNCHANGED <<proc, stops>>
  /\ g' = [g EXCEPT !.sinceStop = 0, !.initsSinceStop = 0, !.idAtStop = nextId]
  /\ UNCHANGED <<nextId, attempt, nspawn, call, wire, opts>>
  /\ UNCHANGED runtime

\* stop() up to its await of the grace period, or to its end when there
\* is no child.
stop(maxStops) ==
  /\ nstop < maxStops
  /\ nstop' = nstop + 1
  /\ started' = FALSE
  /\ startPromise' = 0
  /\ reader' = 0
  /\ child' = 0
  /\ IF child # 0
     THEN /\ proc' = [proc EXCEPT ![child] = kill(@, "SIGTERM")]
          /\ stops' = stops \cup {child}
     ELSE UNCHANGED <<proc, stops>>
  /\ g' = [g EXCEPT !.sinceStop = 0, !.initsSinceStop = 0, !.idAtStop = nextId]
  /\ UNCHANGED <<nextId, pending, turns, attempt, nspawn, call, wire, opts>>
  /\ UNCHANGED runtime

Stop == stop(MaxStops)

\* stop() after the grace period: if (!child.killed) child.kill("SIGKILL").
StopGrace(a) ==
  /\ a \in stops
  /\ stops' = stops \ {a}
  /\ proc' = [proc EXCEPT ![a] = IF ~@.killed THEN kill(@, "SIGKILL") ELSE @]
  /\ UNCHANGED <<child, reader, nextId, pending, turns, started, startPromise,
                 attempt, nspawn, nstop, call, wire, opts, g>>
  /\ UNCHANGED runtime

\* The process exits; the "exit" handler logs the code.
Exit(a) ==
  /\ proc[a].state = "alive"
  /\ proc' = [proc EXCEPT ![a] = [@ EXCEPT !.state = "exited"]]
  /\ UNCHANGED <<child, reader, nextId, pending, turns, started, startPromise,
                 attempt, nspawn, nstop, call, wire, opts, stops, g>>
  /\ UNCHANGED runtime

\* ------------------------------------------------- requests and responses
\* writeMessage throws when there is no child.
CanWrite == child # 0

StartSettled(c) ==
  IF call[c].att = 0 THEN TRUE
  ELSE attempt[call[c].att].pc \in {"resolved", "rejected"}

\* The continuation of "await this.start()": rethrow a failed start, return
\* from start(), or sendRequest() up to its await.
ContinueStart(c) ==
  /\ call[c].pc = "awaitStart"
  /\ StartSettled(c)
  /\ LET a == call[c].att IN
     IF a # 0 /\ attempt[a].pc = "rejected"
     THEN /\ call' = [call EXCEPT ![c] =
                        [@ EXCEPT !.pc = "done", !.out = Threw(attempt[a].err)]]
          /\ UNCHANGED <<nextId, pending, wire, opts, proc, stops>>
     ELSE IF call[c].op = "start"
     THEN /\ call' = [call EXCEPT ![c] = [@ EXCEPT !.pc = "done", !.out = Returned]]
          /\ UNCHANGED <<nextId, pending, wire, opts, proc, stops>>
     ELSE /\ nextId' = NextIdAfter(nextId)
          /\ pending' = MapSet(pending, StringOf(nextId), CallerOwner(c))
          /\ IF CanWrite
             THEN /\ wire' = [wire EXCEPT ![child] =
                                Append(@, Req(nextId, MethodOf(call[c].op)))]
                  /\ call' = [call EXCEPT ![c] =
                                [@ EXCEPT !.pc = "awaitReq", !.reqId = nextId]]
             ELSE /\ wire' = wire
                  /\ call' = [call EXCEPT ![c] =
                                [@ EXCEPT !.pc = "gotResp", !.reqId = nextId,
                                          !.wfail = TRUE,
                                          !.resp = RejectedWith(ErrNotRunning)]]
  /\ UNCHANGED <<child, reader, turns, started, startPromise, attempt, nspawn,
                 nstop, g, opts, proc, stops>>
  /\ UNCHANGED runtime

\* pending.resolve / pending.reject on the promise of a sendRequest() call:
\* a promise settles once, later invocations change nothing.
SettleReq(rec, resp, m) ==
  IF rec.pc = "awaitReq"
  THEN [rec EXCEPT !.pc = "gotResp", !.resp = resp, !.by = m, !.settles = @ + 1]
  ELSE [rec EXCEPT !.settles = @ + 1]

\* What handleMessage passes to the promise for a Response.
ResponseOutcome(m) ==
  IF m.hasError /\ m.error.k = "obj"
  THEN RejectedWith(toError(m))
  ELSE ResolvedWith(IF m.hasResult THEN m.result ELSE RNull)

\* A handleMessage that settles the call and leaves its entry in the table.
DeletePending_kept(key) == pending

\* this.pending.delete(key) in handleMessage.
DeletePending(key) == MapDelete(pending, key)

\* Why a Response finds no entry: its id was never allocated, or it was
\* allocated before the last stop() ("stale") or since ("consumed") and its
\* entry is gone.
KindOfMiss(key) ==
  IF \E n \in 1..(nextId - 1) : StringOf(n) = key
  THEN IF (CHOOSE n \in 1..(nextId - 1) : StringOf(n) = key) < g.idAtStop
       THEN "stale" ELSE "consumed"
  ELSE "unknown"

\* A handleMessage that hands a Response without entry to a waiting caller.
HandleMiss_settles(key) ==
  /\ call' = [c \in Callers |->
                IF call[c].pc = "awaitReq"
                THEN [call[c] EXCEPT !.pc = "gotResp", !.resp = ResolvedWith(RNull)]
                ELSE call[c]]
  /\ UNCHANGED <<child, reader, nextId, pending, turns, started, startPromise,
                 attempt, nspawn, nstop, wire, opts, proc, stops, g>>

\* if (!pending) return;
HandleMiss(key) ==
  IF g.audit
  THEN g' = [g EXCEPT !.discarded = @ \cup {KindOfMiss(key)}] /\ UNCHANGED core
  ELSE UNCHANGED vars

HandleResponse(m) ==
  LET key == normalizeId(m.id) IN
  IF key \notin DOMAIN pending
  THEN HandleMiss(key)
  ELSE LET o == pending[key] IN
       /\ pending' = DeletePending(key)
       /\ IF o[1] = "caller"
          THEN /\ call' = [call EXCEPT ![o[2]] = SettleReq(@, ResponseOutcome(m), m)]
               /\ attempt' = attempt
          ELSE /\ attempt' = [attempt EXCEPT ![o[2]] =
                                SettleReq(@, ResponseOutcome(m), m)]
               /\ call' = call
       /\ UNCHANGED <<child, reader, nextId, turns, started, startPromise,
                      nspawn, nstop, wire, g, opts, proc, stops>>

\* startInternal() after its await of the initialize request.
ContinueAttempt(a) ==
  /\ attempt[a].pc = "gotResp"
  /\ LET r == attempt[a].resp IN
     IF r.k = "error"
     THEN /\ attempt' = [attempt EXCEPT ![a] = [@ EXCEPT !.pc = "rejected", !.err = r.msg,
                                     !.resp = NoResp, !.by = NoMessage]]
          /\ UNCHANGED <<wire, started, opts, proc, stops>>
     ELSE IF r.result.k = "null"
     THEN /\ attempt' = [attempt EXCEPT ![a] =
                           [@ EXCEPT !.pc = "rejected", !.err = ErrInitialize,
                                     !.resp = NoResp, !.by = NoMessage]]
          /\ UNCHANGED <<wire, started, opts, proc, stops>>
     ELSE IF ~CanWrite
     THEN /\ attempt' = [attempt EXCEPT ![a] =
                           [@ EXCEPT !.pc = "rejected", !.err = ErrNotRunning,
                                     !.resp = NoResp, !.by = NoMessage]]
          /\ UNCHANGED <<wire, started, opts, proc, stops>>
     ELSE /\ wire' = [wire EXCEPT ![child] = Append(@, Notif("initialized"))]
          /\ started' = TRUE
          /\ attempt' = [attempt EXCEPT ![a] =
                           [@ EXCEPT !.pc = "resolved", !.resp = NoResp,
                                     !.by = NoMessage]]
  /\ UNCHANGED <<child, reader, nextId, pending, turns, startPromise, nspawn,
                 nstop, call, g, opts, proc, stops>>
  /\ UNCHANGED runtime

\* ---------------------------------------------------------- turn registry
NewTracker(c) ==
  [owner |-> c, itemTexts |-> << >>, lastAgentText |-> NoText,
   lastNonEmptyText |-> NoText]

\* if (params.timeoutMs && params.timeoutMs > 0)
ArmsTimer(tmo) == tmo.has /\ tmo.ms # 0 /\ tmo.ms > 0

\* trackTurn(): this.turns.set(params.turnId, tracker), after arming the timer.
trackTurn(c, u) ==
  /\ turns' = MapSet(turns, u, NewTracker(c))
  /\ call' = [call EXCEPT ![c] =
                [@ EXCEPT !.pc = "tracking", !.turnId = u, !.resp = NoResp,
                          !.by = NoMessage,
                          !.timer = IF ArmsTimer(call[c].tmo) THEN "armed" ELSE "none"]]

Finish(c, out) ==
  call' = [call EXCEPT ![c] =
             [@ EXCEPT !.pc = "done", !.out = out, !.resp = NoResp, !.by = NoMessage]]

\* An id lookup that takes the id of whatever object the result holds.
ThreadIdOf_any(result) == result.id

\* res?.thread?.id and response?.turn?.id: "" when there is none.
ThreadIdOf(result) == IF result.k = "thread" THEN result.id ELSE ""
TurnIdOf(result) == IF result.k = "turn" THEN result.id ELSE ""

\* threadStart / threadResume / runTurn after their await of sendRequest().
ContinueResp(c) ==
  /\ call[c].pc = "gotResp"
  /\ LET r == call[c].resp
         op == call[c].op IN
     IF r.k = "error"
     THEN Finish(c, Threw(r.msg)) /\ turns' = turns
     ELSE IF op = "runTurn"
     THEN IF TurnIdOf(r.result) # ""
          THEN trackTurn(c, TurnIdOf(r.result))
          ELSE Finish(c, Threw(ErrTurnStart)) /\ turns' = turns
     ELSE IF ThreadIdOf(r.result) # ""
          THEN Finish(c, ReturnedThread(ThreadIdOf(r.result))) /\ turns' = turns
          ELSE Finish(c, Threw(IF op = "threadStart" THEN ErrThreadStart
                                                     ELSE ErrThreadResume))
               /\ turns' = turns
  /\ UNCHANGED <<child, reader, nextId, pending, started, startPromise,
                 attempt, nspawn, nstop, wire, g, opts, proc, stops>>
  /\ UNCHANGED runtime

\* A timer callback that rejects the caller and leaves the registry alone.
TimerFire_keepsTracker(c) ==
  /\ call[c].timer = "armed"
  /\ call' = [call EXCEPT ![c] =
                IF @.pc = "tracking"
                THEN [@ EXCEPT !.timer = "fired", !.tRejects = @ + 1,
                               !.pc = "done", !.out = Threw(ErrTimeout)]
                ELSE [@ EXCEPT !.timer = "fired", !.tRejects = @ + 1]]
  /\ UNCHANGED <<child, reader, nextId, pending, turns, started, startPromise,
                 attempt, nspawn, nstop, wire, opts, proc, stops, g>>
  /\ UNCHANGED runtime

\* A timer callback that also tells the process to interrupt the turn.
TimerFire_interrupts(c) ==
  /\ call[c].timer = "armed"
  /\ turns' = MapDelete(turns, call[c].turnId)
  /\ call' = [call EXCEPT ![c] =
                IF @.pc = "tracking"
                THEN [@ EXCEPT !.timer = "fired", !.tRejects = @ + 1,
                               !.pc = "done", !.out = Threw(ErrTimeout)]
                ELSE [@ EXCEPT !.timer = "fired", !.tRejects = @ + 1]]
  /\ wire' = [wire EXCEPT ![child] = Append(@, Notif("turn/interrupt"))]
  /\ UNCHANGED <<child, reader, nextId, pending, started, startPromise,
                 attempt, nspawn, nstop, g, opts, proc, stops>>
  /\ UNCHANGED runtime

\* The timer callback of trackTurn().
TimerFire(c) ==
  /\ call[c].timer = "armed"
  /\ turns' = MapDelete(turns, call[c].turnId)
  /\ call' = [call EXCEPT ![c] =
                IF @.pc = "tracking"
                THEN [@ EXCEPT !.timer = "fired", !.tRejects = @ + 1,
                               !.pc = "done", !.out = Threw(ErrTimeout)]
                ELSE [@ EXCEPT !.timer = "fired", !.tRejects = @ + 1]]
  /\ UNCHANGED <<child, reader, nextId, pending, started, startPromise,
                 attempt, nspawn, nstop, wire, g, opts, proc, stops>>
  /\ UNCHANGED runtime

\* A delta branch that puts the new fragment in front of the text.
ApplyDelta_prepends(t, i, d) ==
  LET existing == IF i \in DOMAIN t.itemTexts THEN t.itemTexts[i] ELSE NoText
      next == d \o existing
      trimmed == Trim(next)
  IN [t EXCEPT !.itemTexts = MapSet(@, i, next),
               !.lastAgentText = next,
               !.lastNonEmptyText = IF trimmed # NoText THEN trimmed ELSE @]

\* A delta branch that keeps the trimmed text even when it is empty.
ApplyDelta_keepsEmpty(t, i, d) ==
  LET existing == IF i \in DOMAIN t.itemTexts THEN t.itemTexts[i] ELSE NoText
      next == existing \o d
  IN [t EXCEPT !.itemTexts = MapSet(@, i, next),
               !.lastAgentText = next,
               !.lastNonEmptyText = Trim(next)]

\* The delta branch of handleNotification, on the tracker found.
ApplyDelta(t, i, d) ==
  LET existing == IF i \in DOMAIN t.itemTexts THEN t.itemTexts[i] ELSE NoText
      next == existing \o d
      trimmed == Trim(next)
  IN [t EXCEPT !.itemTexts = MapSet(@, i, next),
               !.lastAgentText = next,
               !.lastNonEmptyText = IF trimmed # NoText THEN trimmed ELSE @]

\* An item/completed branch that appends the final text to the partial one.
ApplyItemCompleted_appends(t, p) ==
  LET text == IF p.textIsString THEN p.text ELSE NoText
      existing == IF p.itemIdC \in DOMAIN t.itemTexts THEN t.itemTexts[p.itemIdC]
                  ELSE NoText
      trimmed == Trim(text)
  IN [t EXCEPT !.itemTexts = IF p.itemIdC # "" THEN MapSet(@, p.itemIdC, existing \o text)
                             ELSE @,
               !.lastAgentText = text,
               !.lastNonEmptyText = IF trimmed # NoText THEN trimmed ELSE @]

\* The item/completed branch of handleNotification, on the tracker found.
ApplyItemCompleted(t, p) ==
  LET text == IF p.textIsString THEN p.text ELSE NoText
      trimmed == Trim(text)
  IN [t EXCEPT !.itemTexts = IF p.itemIdC # "" THEN MapSet(@, p.itemIdC, text) ELSE @,
               !.lastAgentText = text,
               !.lastNonEmptyText = IF trimmed # NoText THEN trimmed ELSE @]

\* A turn/completed branch that throws for a failed turn.
TurnResult_throws(t, p) ==
  IF p.status = "completed"
  THEN [NoOut EXCEPT !.k = "resolved", !.status = "completed",
                     !.text = t.lastNonEmptyText]
  ELSE IF p.status = "interrupted"
  THEN [NoOut EXCEPT !.k = "resolved", !.status = "interrupted",
                     !.text = t.lastNonEmptyText]
  ELSE Threw(IF p.hasErrMsg THEN p.errMsg ELSE ErrTurnFailed)

\* The CodexTurnResult of the turn/completed branch.
TurnResult(t, p) ==
  IF p.status = "completed"
  THEN [NoOut EXCEPT !.k = "resolved", !.status = "completed",
                     !.text = t.lastNonEmptyText]
  ELSE IF p.status = "interrupted"
  THEN [NoOut EXCEPT !.k = "resolved", !.status = "interrupted",
                     !.text = t.lastNonEmptyText]
  ELSE [NoOut EXCEPT !.k = "resolved", !.status = "failed", !.hasErr = TRUE,
                     !.err = IF p.hasErrMsg THEN p.errMsg ELSE ErrTurnFailed,
                     !.text = t.lastNonEmptyText]

\* clearTimeout(tracker.timeout) and tracker.resolve(result).
CompleteTurn(rec, out) ==
  LET cleared == [rec EXCEPT !.timer = IF @ = "armed" THEN "cleared" ELSE @,
                             !.tResolves = @ + 1]
  IN IF rec.pc = "tracking"
     THEN [cleared EXCEPT !.pc = "done", !.out = out]
     ELSE cleared

\* runTurn calls that hold the Response yielding turn id u and have not
\* created its tracker yet.
Yielded(u) ==
  {c \in Callers : /\ call[c].pc = "gotResp"
                   /\ call[c].op = "runTurn"
                   /\ call[c].resp = ResolvedWith(RTurn(u))}

\* Turn ids whose trackTurn() call has settled: by turn/completed or by its
\* timer.
Destroyed(u) == \E c \in Callers : call[c].turnId = u /\ call[c].pc = "done"

\* A handler that tracks a turn it has no tracker for, from then on.
NoTracker_resurrects(u, method) ==
  /\ turns' = MapSet(turns, u, NewTracker(1))
  /\ UNCHANGED <<child, reader, nextId, pending, started, startPromise,
                 attempt, nspawn, nstop, call, wire, opts, proc, stops, g>>

\* A notification that finds no tracker: the handler returns.
NoTracker(u, method) ==
  /\ g' = [g EXCEPT !.missed = @ \cup Yielded(u),
                    !.inert = IF Destroyed(u)
                              THEN @ \cup {<<u, method = "turn/completed">>}
                              ELSE @]
  /\ UNCHANGED core

Logged(kind, i, text) == [kind |-> kind, item |-> i, text |-> text]

handleNotification(method, p, maxUpd) ==
  IF method = "item/agentMessage/delta"
  THEN IF p.turnId = "" \/ p.itemId = "" \/ ~p.deltaIsString
       THEN UNCHANGED vars
       ELSE IF p.turnId \notin DOMAIN turns
       THEN NoTracker(p.turnId, method)
       ELSE LET o == turns[p.turnId].owner IN
            /\ Len(g.log[o]) < maxUpd
            /\ turns' = [turns EXCEPT ![p.turnId] = ApplyDelta(@, p.itemId, p.delta)]
            /\ g' = [g EXCEPT !.log[o] = Append(@, Logged("delta", p.itemId, p.delta))]
            /\ UNCHANGED <<child, reader, nextId, pending, started, startPromise,
                           attempt, nspawn, nstop, call, wire, opts, proc, stops>>
  ELSE IF method = "item/completed"
  THEN IF p.turnId = "" \/ ~p.hasItem \/ p.itemType # "agentMessage"
       THEN UNCHANGED vars
       ELSE IF p.turnId \notin DOMAIN turns
       THEN NoTracker(p.turnId, method)
       ELSE LET o == turns[p.turnId].owner IN
            /\ Len(g.log[o]) < maxUpd
            /\ turns' = [turns EXCEPT ![p.turnId] = ApplyItemCompleted(@, p)]
            /\ g' = [g EXCEPT !.log[o] =
                       Append(@, Logged("completed", p.itemIdC,
                                        IF p.textIsString THEN p.text ELSE NoText))]
            /\ UNCHANGED <<child, reader, nextId, pending, started, startPromise,
                           attempt, nspawn, nstop, call, wire, opts, proc, stops>>
  ELSE IF method = "turn/completed"
  THEN IF p.tcId = ""
       THEN UNCHANGED vars
       ELSE IF p.tcId \notin DOMAIN turns
       THEN NoTracker(p.tcId, method)
       ELSE LET t == turns[p.tcId] IN
            /\ turns' = MapDelete(turns, p.tcId)
            /\ call' = [call EXCEPT ![t.owner] = CompleteTurn(@, TurnResult(t, p))]
            /\ UNCHANGED <<child, reader, nextId, pending, started, startPromise,
                           attempt, nspawn, nstop, wire, g, opts, proc, stops>>
  ELSE UNCHANGED vars

\* ------------------------------------------------------- inbound requests
\* A reply policy that never reads opts.autoApprove.
ServerReply_declines(m) ==
  CASE m.method = "item/commandExecution/requestApproval" ->
         ResultReply(m.id, "{decision:decline}")
    [] m.method = "item/fileChange/requestApproval" ->
         ResultReply(m.id, "{decision:decline}")
    [] m.method = "item/tool/requestUserInput" -> ResultReply(m.id, "{answers:{}}")
    [] m.method = "item/tool/call" ->
         ResultReply(m.id, "{output:clawd does not support dynamic tool calls,success:false}")
    [] m.method = "account/chatgptAuthTokens/refresh" ->
         ErrorReply(m.id, -32601, "auth token refresh unsupported")
    [] OTHER -> ErrorReply(m.id, -32601, "unsupported request: " \o m.method)

\* The reply handleServerRequest writes for an inbound Request.
ServerReply(m) ==
  LET decision == IF opts.autoApprove THEN "{decision:accept}" ELSE "{decision:decline}" IN
  CASE m.method = "item/commandExecution/requestApproval" -> ResultReply(m.id, decision)
    [] m.method = "item/fileChange/requestApproval" -> ResultReply(m.id, decision)
    [] m.method = "item/tool/requestUserInput" -> ResultReply(m.id, "{answers:{}}")
    [] m.method = "item/tool/call" ->
         ResultReply(m.id, "{output:clawd does not support dynamic tool calls,success:false}")
    [] m.method = "account/chatgptAuthTokens/refresh" ->
         ErrorReply(m.id, -32601, "auth token refresh unsupported")
    [] OTHER -> ErrorReply(m.id, -32601, "unsupported request: " \o m.method)

\* Number of replies to inbound Requests the model follows.
MaxReplies == 1

\* A handleServerRequest that takes the Request's id for the id of one of
\* the client's own requests and removes that entry.
handleServerRequest_consumes(m) ==
  IF ~CanWrite
  THEN UNCHANGED vars
  ELSE /\ g.replies < MaxReplies
       /\ wire' = [wire EXCEPT ![child] = Append(@, ServerReply(m))]
       /\ pending' = MapDelete(pending, normalizeId(m.id))
       /\ g' = [g EXCEPT !.replies = @ + 1]
       /\ UNCHANGED <<child, reader, nextId, turns, started,
                      startPromise, attempt, nspawn, nstop, call, opts, proc, stops>>

\* A handleServerRequest that answers the methods it names and drops the
\* others.
handleServerRequest_silent(m) ==
  IF ~CanWrite
  THEN UNCHANGED vars
  ELSE /\ g.replies < MaxReplies
       /\ wire' = [wire EXCEPT ![child] =
                     IF ServerReply(m).k = "error" THEN @ ELSE Append(@, ServerReply(m))]
       /\ g' = [g EXCEPT !.replies = @ + 1]
       /\ UNCHANGED <<child, reader, nextId, pending, turns, started,
                      startPromise, attempt, nspawn, nstop, call, opts, proc, stops>>

handleServerRequest(m) ==
  IF ~CanWrite
  THEN UNCHANGED vars
  ELSE /\ g.replies < MaxReplies
       /\ wire' = [wire EXCEPT ![child] = Append(@, ServerReply(m))]
       /\ g' = [g EXCEPT !.replies = @ + 1]
       /\ UNCHANGED <<child, reader, nextId, pending, turns, started,
                      startPromise, attempt, nspawn, nstop, call, opts, proc, stops>>

\* ------------------------------------------------------------ the router
handleMessage(m, maxUpd) ==
  IF isRpcResponse(m) THEN HandleResponse(m)
  ELSE IF isRpcRequest(m) THEN handleServerRequest(m)
  ELSE IF isRpcNotification(m) THEN handleNotification(m.method, m.params, maxUpd)
  ELSE UNCHANGED vars

\* A line of the child's stdout: blank, not JSON, or a JSON message.
BlankLine == [kind |-> "blank", msg |-> NoMessage]
MalformedLine == [kind |-> "malformed", msg |-> NoMessage]
JsonLine(m) == [kind |-> "json", msg |-> m]

\* A line that parses as JSON to a value that is no plain object.  The kind
\* is the value's type; an array is an object without id, method, result
\* and error.
JsonPrimitives == {"null", "number", "string", "boolean"}
ValueLine(t) == [kind |-> t, msg |-> NoMessage]

TurnCompletedLine(u, st, hasErr, msg) ==
  JsonLine(Notification("turn/completed", TurnParams(u, st, hasErr, msg)))

\* A line handler that closes the reader on a line it cannot use.
DropLine_closes(kind) ==
  /\ reader' = 0
  /\ UNCHANGED <<child, nextId, pending, turns, started, startPromise, attempt,
                 nspawn, nstop, call, wire, opts, proc, stops, g>>

\* if (!line.trim()) return;  and  catch { return; }
DropLine(kind) ==
  IF g.audit
  THEN g' = [g EXCEPT !.dropped = @ \cup {<<kind, nextId>>}] /\ UNCHANGED core
  ELSE UNCHANGED vars

\* "id" in message, the first test of isRpcResponse, with a right operand
\* that is no object: the in operator throws a TypeError, which no frame
\* between isRpcResponse and the "line" listener catches; raised = the types
\* of the values whose line made the listener throw.
RaiseLine(kind) ==
  /\ g' = [g EXCEPT !.raised = @ \cup {kind}]
  /\ UNCHANGED core

\* The reader's "line" handler.
HandleLine(l, maxUpd) ==
  /\ reader # 0
  /\ IF l.kind = "blank" THEN DropLine("blank")
     ELSE IF l.kind = "malformed" THEN DropLine("malformed")
     ELSE IF l.kind \in JsonPrimitives THEN RaiseLine(l.kind)
     ELSE handleMessage(l.msg, maxUpd)
  /\ UNCHANGED runtime

\* --------------------------------------------------------- specifications
\* What the process may print.  A Response whose id matches no pending key
\* takes the same branch of handleMessage whatever the id is, so the ids
\* tried are: every pending key, as a number and as a string; the id the
\* client allocates next; id 1, which the first request used; a string that
\* is no number.
NumberOf(key) == CHOOSE n \in WireIds : StringOf(n) = key

ResponseIds ==
  {NumId(NumberOf(k)) : k \in DOMAIN pending} \cup {StrId(k) : k \in DOMAIN pending}
    \cup {NumId(nextId), NumId(1), StrId("x")}

ProtoResponses ==
  {ResultResponse(i, r) : i \in ResponseIds,
                          r \in {RNull} \cup {RTurn(u) : u \in TurnIds}}
    \cup {ErrorResponse(i, EMsg("boom")) : i \in ResponseIds}

\* Text updates followed per tracker in Spec and SpecTurns.
ProtoUpdates == 1

ProtoNotifications ==
  {Notification("turn/completed", TurnParams(u, "completed", FALSE, "")) :
            u \in TurnIds}

ProtoLines ==
  {BlankLine, MalformedLine}
    \cup {JsonLine(m) : m \in ProtoResponses \cup ProtoNotifications}

ProtoOps == {"start", "runTurn"}
TimeoutsOf(op) == IF op = "runTurn" THEN {NoTimeout, TimeoutMs(50)} ELSE {NoTimeout}

Next ==
  \/ \E c \in Callers, op \in ProtoOps : \E tmo \in TimeoutsOf(op) : Enter(c, op, tmo)
  \/ Stop
  \/ \E c \in Callers : ContinueStart(c)
  \/ \E a \in Attempts : ContinueAttempt(a)
  \/ \E c \in Callers : ContinueResp(c)
  \/ \E c \in Callers : TimerFire(c)
  \/ \E l \in ProtoLines : HandleLine(l, ProtoUpdates)

Spec == Init /\ [][Next]_vars

\* A session whose start() has completed: the state every run of Spec
\* reaches by Enter(start), the initialize Response, ContinueAttempt.
StartedSession(o, audit) ==
  /\ child = 1
  /\ reader = 1
  /\ nextId = 2
  /\ pending = << >>
  /\ turns = << >>
  /\ started = TRUE
  /\ startPromise = 1
  /\ attempt = [a \in Attempts |->
                  IF a = 1 THEN [NoAttempt EXCEPT !.pc = "resolved", !.reqId = 1,
                                                  !.settles = 1]
                  ELSE NoAttempt]
  /\ nspawn = 1
  /\ nstop = 0
  /\ call = [c \in Callers |-> IdleCall]
  /\ wire = [a \in Attempts |->
               IF a = 1 THEN <<Req(1, "initialize"), Notif("initialized")>>
               ELSE << >>]
  /\ opts = o
  /\ proc = [a \in Attempts |-> IF a = 1 THEN Spawned ELSE NoProc]
  /\ stops = {}
  /\ g = [NoGhost EXCEPT !.sinceStop = 1, !.initsSinceStop = 1, !.audit = audit]
  /\ RuntimeInit

InitStarted == StartedSession([autoApprove |-> FALSE], FALSE)

\* Concurrent turns on a started session: every notification kind, one text
\* per kind.
TurnsResponses ==
  {ResultResponse(i, r) : i \in {NumId(NumberOf(k)) : k \in DOMAIN pending}
                                  \cup {NumId(1)},
                          r \in {RNull} \cup {RTurn(u) : u \in TurnIds}}

TurnsNotifications ==
  {Notification("item/agentMessage/delta", DeltaParams(u, "i1", TRUE, <<"a">>)) :
     u \in TurnIds}
    \cup {Notification("item/completed",
                       ItemParams(u, TRUE, "agentMessage", "i1", TRUE, <<"b">>)) :
            u \in TurnIds}
    \cup {Notification("turn/completed", TurnParams(u, st, FALSE, "")) :
            u \in TurnIds, st \in {"completed", "failed"}}

TurnsLines == {JsonLine(m) : m \in TurnsResponses \cup TurnsNotifications}

NextTurns ==
  \/ \E c \in Callers : \E tmo \in {NoTimeout, TimeoutMs(50)} : Enter(c, "runTurn", tmo)
  \/ \E c \in Callers : ContinueStart(c)
  \/ \E c \in Callers : ContinueResp(c)
  \/ \E c \in Callers : TimerFire(c)
  \/ \E l \in TurnsLines : HandleLine(l, ProtoUpdates)

SpecTurns == InitStarted /\ [][NextTurns]_vars

\* One turn on a started session, with the texts that tell appending from
\* replacing, trimming from not trimming and one item from another.
TextDeltas == {<<"a">>, <<" ">>}
TextFinals == {<<"b">>}

TextResponses ==
  {ResultResponse(NumId(NumberOf(k)), RTurn("u1")) : k \in DOMAIN pending}

TextNotifications ==
  {Notification("item/agentMessage/delta", DeltaParams("u1", i, TRUE, d)) :
     i \in Items, d \in TextDeltas}
    \cup {Notification("item/agentMessage/delta", DeltaParams("u1", "", TRUE, <<"a">>)),
          Notification("item/agentMessage/delta", DeltaParams("u1", "i1", FALSE, NoText)),
          Notification("item/agentMessage/delta", DeltaParams("", "i1", TRUE, <<"a">>))}
    \cup {Notification("item/completed",
                       ItemParams("u1", TRUE, "agentMessage", i, TRUE, t)) :
            i \in {"i1", ""}, t \in TextFinals}
    \cup {Notification("item/completed",
                       ItemParams("u1", TRUE, "agentMessage", "i1", FALSE, NoText)),
          Notification("item/completed",
                       ItemParams("u1", TRUE, "reasoning", "i1", TRUE, <<"b">>)),
          Notification("item/completed",
                       ItemParams("u1", FALSE, "", "", FALSE, NoText))}
    \cup {Notification("turn/completed", TurnParams("u1", st, FALSE, "")) :
            st \in {"completed", "interrupted", "failed", ""}}
    \cup {Notification("turn/completed", TurnParams("u1", "failed", TRUE, "oops")),
          Notification("turn/completed", TurnParams("", "completed", FALSE, ""))}

TextLines == {JsonLine(m) : m \in TextResponses \cup TextNotifications}

NextText ==
  \/ \E tmo \in Timeouts \ {NoTimeout} : Enter(1, "runTurn", tmo)
  \/ ContinueStart(1)
  \/ ContinueResp(1)
  \/ TimerFire(1)
  \/ \E l \in TextLines : HandleLine(l, MaxUpdates)

SpecText == InitStarted /\ [][NextText]_vars

\* The life of the processes: start, stop() and its grace period, exits,
\* with requests and turns in flight.  Every Response answers a pending
\* request with a turn id; the only notification is turn/completed.
LifeStops == 2

LifeResponses ==
  {ResultResponse(NumId(NumberOf(k)), RTurn("u1")) : k \in DOMAIN pending}

LifeLines ==
  {JsonLine(m) : m \in LifeResponses}
    \cup {TurnCompletedLine("u1", "completed", FALSE, "")}

NextLife ==
  \/ \E c \in Callers, op \in ProtoOps : \E tmo \in TimeoutsOf(op) : Enter(c, op, tmo)
  \/ stop(LifeStops)
  \/ \E a \in Attempts : StopGrace(a)
  \/ \E a \in Attempts : Exit(a)
  \/ \E c \in Callers : ContinueStart(c)
  \/ \E a \in Attempts : ContinueAttempt(a)
  \/ \E c \in Callers : ContinueResp(c)
  \/ \E c \in Callers : TimerFire(c)
  \/ \E l \in LifeLines : HandleLine(l, ProtoUpdates)

SpecLife == Init /\ [][NextLife]_vars

\* Responses of every make to threadStart calls on a started session that
\* may be stopped and started again: a result (its id a number or a
\* string), an error with and without message, a null error, both fields;
\* for every id allocated so far and for the id allocated next.
RouterIds == {NumId(n) : n \in 1..nextId}

RouterResponses ==
  {ResultResponse(i, RThread("t1")) : i \in RouterIds \cup {StrId(k) : k \in DOMAIN pending}}
    \cup {ErrorResponse(i, e) : i \in RouterIds, e \in Errors}
    \cup {BothResponse(i, RThread("t1"), e) : i \in RouterIds, e \in {EMsg("boom"), ENull}}

RouterLines == {JsonLine(m) : m \in RouterResponses}

RouterOps == {"threadStart"}

InitRouter == StartedSession([autoApprove |-> FALSE], TRUE)

NextRouter ==
  \/ \E c \in Callers, op \in RouterOps : Enter(c, op, NoTimeout)
  \/ Stop
  \/ \E c \in Callers : ContinueStart(c)
  \/ \E a \in Attempts : ContinueAttempt(a)
  \/ \E c \in Callers : ContinueResp(c)
  \/ \E l \in RouterLines : HandleLine(l, ProtoUpdates)

SpecRouter == InitRouter /\ [][NextRouter]_vars

\* Inbound traffic on a started session, with autoApprove set or not, while
\* runTurn calls are in flight.  The process prints messages with every
\* combination of id, method, result and error present or absent (the id a
\* pending one or 1, the method turn/completed for turn u1), and Requests
\* with the methods handleServerRequest names and one it does not, under
\* the id the first runTurn call uses for its own request.
ServerRequestMethods ==
  {"item/commandExecution/requestApproval", "item/fileChange/requestApproval",
   "item/tool/requestUserInput", "item/tool/call"}

InboundMethods ==
  ServerRequestMethods \cup {"account/chatgptAuthTokens/refresh", "bogus/method"}

InboundIds == {NumId(NumberOf(k)) : k \in DOMAIN pending} \cup {NumId(1)}

InboundCombinations ==
  {Message(hasId, IF hasId THEN i ELSE NoId,
           hasMethod, IF hasMethod THEN "turn/completed" ELSE "",
           hasResult, IF hasResult THEN RTurn("u1") ELSE RNull,
           hasError, IF hasError THEN EMsg("boom") ELSE ENull,
           IF hasMethod THEN TurnParams("u1", "completed", FALSE, "") ELSE NoParams) :
     hasId \in BOOLEAN, i \in InboundIds, hasMethod \in BOOLEAN,
     hasResult \in BOOLEAN, hasError \in BOOLEAN}

InboundRequests == {Request(NumId(2), method) : method \in InboundMethods}

InboundMessages == InboundCombinations \cup InboundRequests

InboundLines == {JsonLine(m) : m \in InboundMessages}

InitInbound == \E b \in BOOLEAN : StartedSession([autoApprove |-> b], FALSE)

NextInbound ==
  \/ \E c \in Callers : Enter(c, "runTurn", NoTimeout)
  \/ \E c \in Callers : ContinueStart(c)
  \/ \E c \in Callers : ContinueResp(c)
  \/ \E l \in InboundLines : HandleLine(l, ProtoUpdates)

SpecInbound == InitInbound /\ [][NextInbound]_vars

\* Lines that parse as JSON but are no message: the primitive values, an
\* array, and objects that match none of the three shapes (no id and no
\* method, with and without result and error), between the lines of two
\* runTurn calls.
ValueLines == {ValueLine(t) : t \in JsonPrimitives \cup {"array"}}

ShapelessLines ==
  {JsonLine(Message(FALSE, NoId, FALSE, "",
                    hasResult, IF hasResult THEN RTurn("u1") ELSE RNull,
                    hasError, IF hasError THEN EMsg("boom") ELSE ENull, NoParams)) :
     hasResult \in BOOLEAN, hasError \in BOOLEAN}

TurnLines ==
  {JsonLine(ResultResponse(NumId(NumberOf(k)), RTurn("u1"))) : k \in DOMAIN pending}
    \cup {TurnCompletedLine("u1", "completed", FALSE, "")}

InitJson == StartedSession([autoApprove |-> FALSE], FALSE)

NextJson ==
  \/ \E c \in Callers : Enter(c, "runTurn", NoTimeout)
  \/ \E c \in Callers : ContinueStart(c)
  \/ \E c \in Callers : ContinueResp(c)
  \/ \E l \in ValueLines \cup ShapelessLines \cup TurnLines :
       HandleLine(l, ProtoUpdates)

SpecJson == InitJson /\ [][NextJson]_vars

\* Blank and unparsable lines between the lines of two runTurn calls on a
\* started session.
BadLines == {BlankLine, MalformedLine}

GoodLines ==
  {JsonLine(ResultResponse(NumId(NumberOf(k)), RTurn("u1"))) : k \in DOMAIN pending}
    \cup {TurnCompletedLine("u1", "completed", FALSE, "")}

InitLines == StartedSession([autoApprove |-> FALSE], TRUE)

NextLines ==
  \/ \E c \in Callers : Enter(c, "runTurn", NoTimeout)
  \/ \E c \in Callers : ContinueStart(c)
  \/ \E c \in Callers : ContinueResp(c)
  \/ \E l \in BadLines \cup GoodLines : HandleLine(l, ProtoUpdates)

SpecLines == InitLines /\ [][NextLines]_vars

\* threadStart, threadResume and runTurn calls on a started session, each
\* answered with a result of every shape: nothing, an object without ids,
\* a turn or a thread with or without id; or with an RPC error.
IdResults == {RNull, RObj, RTurn(""), RTurn("u1"), RThread(""), RThread("t1")}

IdResponses ==
  {ResultResponse(NumId(NumberOf(k)), r) : k \in DOMAIN pending, r \in IdResults}
    \cup {ErrorResponse(NumId(NumberOf(k)), EMsg("boom")) : k \in DOMAIN pending}

IdLines == {JsonLine(m) : m \in IdResponses}

IdOps == {"threadStart", "threadResume", "runTurn"}

NextIds ==
  \/ \E c \in Callers, op \in IdOps : \E tmo \in TimeoutsOf(op) : Enter(c, op, tmo)
  \/ \E c \in Callers : ContinueStart(c)
  \/ \E c \in Callers : ContinueResp(c)
  \/ \E c \in Callers : TimerFire(c)
  \/ \E l \in IdLines : HandleLine(l, ProtoUpdates)

SpecIds == InitStarted /\ [][NextIds]_vars

\* runTurn calls with a timeout on a started session whose process may
\* answer, stay silent or exit.  The client's own continuations and the
\* armed timers run eventually (the event loop runs queued microtasks and
\* due timers); nothing is assumed about what the process prints.
TimedLines ==
  {JsonLine(ResultResponse(NumId(NumberOf(k)), RTurn("u1"))) : k \in DOMAIN pending}
    \cup {TurnCompletedLine("u1", "completed", FALSE, "")}

NextTimed ==
  \/ \E c \in Callers : Enter(c, "runTurn", TimeoutMs(50))
  \/ \E c \in Callers : ContinueStart(c)
  \/ \E c \in Callers : ContinueResp(c)
  \/ \E c \in Callers : TimerFire(c)
  \/ Exit(1)
  \/ \E l \in TimedLines : HandleLine(l, ProtoUpdates)

EventLoopRuns ==
  \A c \in Callers :
    /\ WF_vars(ContinueStart(c))
    /\ WF_vars(ContinueResp(c))
    /\ WF_vars(TimerFire(c))

SpecTimed == InitStarted /\ [][NextTimed]_vars /\ EventLoopRuns

\* runTurn calls with timeoutMs absent, zero, negative or positive on a
\* started session whose process issues turn ids u1 and u2 as it likes.
UntimedTimeouts == {NoTimeout, TimeoutMs(0), TimeoutMs(-5), TimeoutMs(50)}

UntimedLines ==
  {JsonLine(ResultResponse(NumId(NumberOf(k)), RTurn(u))) :
     k \in DOMAIN pending, u \in TurnIds}
    \cup {TurnCompletedLine(u, "completed", FALSE, "") : u \in TurnIds}

NextUntimed ==
  \/ \E c \in Callers, tmo \in UntimedTimeouts : Enter(c, "runTurn", tmo)
  \/ \E c \in Callers : ContinueStart(c)
  \/ \E c \in Callers : ContinueResp(c)
  \/ \E c \in Callers : TimerFire(c)
  \/ \E l \in UntimedLines : HandleLine(l, ProtoUpdates)

SpecUntimed == InitStarted /\ [][NextUntimed]_vars

\* A session whose first start() has spawned process 1 and written the
\* initialize request, and waits for the answer: the state Spec reaches by
\* Enter(start), here with that caller left out of the calls followed.
StartingSession ==
  /\ child = 1
  /\ reader = 1
  /\ nextId = 2
  /\ pending = MapSet(<< >>, "1", AttemptOwner(1))
  /\ turns = << >>
  /\ started = FALSE
  /\ startPromise = 1
  /\ attempt = [a \in Attempts |->
                  IF a = 1 THEN [NoAttempt EXCEPT !.pc = "awaitReq", !.reqId = 1]
                  ELSE NoAttempt]
  /\ nspawn = 1
  /\ nstop = 0
  /\ call = [c \in Callers |-> IdleCall]
  /\ wire = [a \in Attempts |-> IF a = 1 THEN <<Req(1, "initialize")>> ELSE << >>]
  /\ opts = [autoApprove |-> FALSE]
  /\ proc = [a \in Attempts |-> IF a = 1 THEN Spawned ELSE NoProc]
  /\ stops = {}
  /\ g = [NoGhost EXCEPT !.sinceStop = 1, !.initsSinceStop = 1]
  /\ RuntimeInit

\* start() and threadStart calls around a handshake that may fail: the
\* initialize request is answered with a result, an empty result or an
\* error; stop() may run at any moment.
HandshakeResponses ==
  {ResultResponse(NumId(NumberOf(k)), r) : k \in DOMAIN pending, r \in {RNull, RObj}}
    \cup {ErrorResponse(NumId(NumberOf(k)), EMsg("boom")) : k \in DOMAIN pending}

HandshakeLines == {JsonLine(m) : m \in HandshakeResponses}

HandshakeOps == {"start", "threadStart"}

NextHandshake ==
  \/ \E c \in Callers, op \in HandshakeOps : Enter(c, op, NoTimeout)
  \/ Stop
  \/ \E c \in Callers : ContinueStart(c)
  \/ \E a \in Attempts : ContinueAttempt(a)
  \/ \E c \in Callers : ContinueResp(c)
  \/ \E l \in HandshakeLines : HandleLine(l, ProtoUpdates)

SpecHandshake == StartingSession /\ [][NextHandshake]_vars

\* ------------------------------------------------------------- properties
\* The outcome a Response carries: its error when it has one, else its result.
OutcomeOf(m) ==
  IF m.hasError /\ m.error.k = "obj"
  THEN [k |-> "error", result |-> RNull,
        msg |-> IF m.error.hasMsg THEN m.error.msg ELSE "Unknown JSON-RPC error"]
  ELSE [k |-> "result", result |-> IF m.hasResult THEN m.result ELSE RNull, msg |-> ""]

\* A sendRequest() call whose request was written (rec holds its id): the
\* resolver ran at most once; once it ran the key is gone from the table; the
\* promise was settled by a Response of that id, with that Response's outcome;
\* and nothing but a Response moved the call past its await.
SettledByItsResponse(rec) ==
  /\ rec.settles <= 1
  /\ rec.settles = 1 => StringOf(rec.reqId) \notin DOMAIN pending
  /\ rec.pc = "awaitReq" => rec.settles = 0
  /\ rec.pc # "awaitReq" => rec.settles = 1
  /\ rec.pc = "gotResp" =>
       /\ rec.by.hasId /\ (rec.by.hasResult \/ rec.by.hasError)
       /\ (IF rec.by.id.t = "num" THEN StringOf(rec.by.id.n) ELSE rec.by.id.s)
            = StringOf(rec.reqId)
       /\ rec.resp = OutcomeOf(rec.by)

\* C1: under any interleaving of Responses (in order, out of order,
\* duplicated, unknown ids), every outstanding sendRequest call - one whose
\* request was written - is settled at most once, only by a Response whose
\* normalized id is the id allocated to it and with that Response's result
\* or error, and its key is absent from the pending table from then on.
C1_SettledOnceByOwnResponse ==
  /\ \A c \in Callers :
       (call[c].reqId # 0 /\ ~call[c].wfail) => SettledByItsResponse(call[c])
  /\ \A a \in Attempts :
       attempt[a].reqId # 0 => SettledByItsResponse(attempt[a])

\* Two requests outstanding, the later one answered first, by a string id.
C1_Witness ==
  \E c, b \in Callers :
    /\ call[c].pc = "gotResp" /\ ~call[c].wfail /\ call[c].by.id.t = "str"
    /\ call[b].pc = "awaitReq" /\ call[b].reqId < call[c].reqId

\* C2: a runTurn caller is never both resolved and rejected nor settled
\* twice, and its tracker leaves the registry in the very step that settles
\* it: a call is waiting on its tracker exactly while the registry holds the
\* tracker it created.
C2_SettledWithRemoval ==
  \A c \in Callers :
    /\ call[c].tResolves + call[c].tRejects <= 1
    /\ (call[c].pc = "tracking")
         <=> (\E u \in DOMAIN turns : turns[u].owner = c)

\* C3: from the moment the turn/start Response yielding u has been received,
\* no notification referencing u finds the registry without u's tracker.
C3_NoNotificationLost == g.missed = {}

\* ------------------------------------------------------------ turn text
\* The text of item i after the first n updates of a tracker's log.
RECURSIVE ItemTextAt(_, _, _)
ItemTextAt(log, n, i) ==
  IF n = 0 THEN NoText
  ELSE IF log[n].item # i THEN ItemTextAt(log, n - 1, i)
  ELSE IF log[n].kind = "delta" THEN ItemTextAt(log, n - 1, i) \o log[n].text
  ELSE log[n].text

\* The text update n left as the last agent text.
UpdateText(log, n) ==
  IF log[n].kind = "delta" THEN ItemTextAt(log, n, log[n].item) ELSE log[n].text

\* The trimmed text of the most recent update whose trimmed text is not empty.
LastNonEmptyOf(log) ==
  LET S == {n \in 1..Len(log) : Trim(UpdateText(log, n)) # NoText} IN
  IF S = {} THEN NoText
  ELSE Trim(UpdateText(log, CHOOSE n \in S : \A k \in S : k <= n))

ActiveTurn(c) ==
  /\ call[c].pc = "tracking"
  /\ call[c].turnId \in DOMAIN turns
  /\ turns[call[c].turnId].owner = c

\* C4: a turn/completed with status completed (interrupted) for an active
\* turn resolves runTurn with that status and with outputText the trimmed
\* text of the most recent delta or agentMessage item/completed update of
\* the turn whose trimmed text was not empty, the empty text if none was;
\* an error message in the notification is not reported.
C4_CompletedResolvesWithLastText ==
  [][\A c \in Callers : \A st \in {"completed", "interrupted"} :
       \A e \in {<<FALSE, "">>, <<TRUE, "oops">>} :
         (ActiveTurn(c)
            /\ HandleLine(TurnCompletedLine(call[c].turnId, st, e[1], e[2]), MaxUpdates))
         => /\ call'[c].pc = "done"
            /\ call'[c].tRejects = 0
            /\ call'[c].out = [NoOut EXCEPT !.k = "resolved", !.status = st,
                                            !.text = LastNonEmptyOf(g.log[c])]]_vars

\* A turn resolved as completed whose text came from deltas only, the last
\* of which left only white space as the item's text.
C4_Witness ==
  /\ call[1].pc = "done"
  /\ call[1].out.k = "resolved"
  /\ call[1].out.status = "completed"
  /\ call[1].out.text = <<"a">>
  /\ Len(g.log[1]) = MaxUpdates
  /\ \A n \in 1..Len(g.log[1]) : g.log[1][n].kind = "delta"
  /\ Trim(UpdateText(g.log[1], Len(g.log[1]))) = NoText

\* C5: a turn/completed with any other status, a missing one included, for
\* an active turn resolves runTurn (it never rejects) with status failed,
\* error the notification's error message or "codex turn failed" when there
\* is none, and outputText the last non-empty trimmed text.
C5_OtherStatusResolvesFailed ==
  [][\A c \in Callers : \A st \in {"failed", ""} :
       \A e \in {<<FALSE, "">>, <<TRUE, "oops">>} :
         (ActiveTurn(c)
            /\ HandleLine(TurnCompletedLine(call[c].turnId, st, e[1], e[2]), MaxUpdates))
         => /\ call'[c].pc = "done"
            /\ call'[c].tRejects = 0
            /\ call'[c].out =
                 [NoOut EXCEPT !.k = "resolved", !.status = "failed", !.hasErr = TRUE,
                               !.err = IF e[1] THEN e[2] ELSE "codex turn failed",
                               !.text = LastNonEmptyOf(g.log[c])]]_vars

\* A turn resolved as failed with the default error and a text.
C5_Witness ==
  /\ call[1].pc = "done"
  /\ call[1].out.k = "resolved"
  /\ call[1].out.status = "failed"
  /\ call[1].out.err = "codex turn failed"
  /\ call[1].out.text = <<"b">>
  /\ call[1].tResolves = 1
  /\ call[1].tRejects = 0

\* The deltas of item i in a log, concatenated in arrival order.
RECURSIVE DeltasOf(_, _)
DeltasOf(log, i) ==
  IF log = << >> THEN NoText
  ELSE LET e == log[Len(log)]
           rest == SubSeq(log, 1, Len(log) - 1)
       IN IF e.kind = "delta" /\ e.item = i THEN DeltasOf(rest, i) \o e.text
          ELSE DeltasOf(rest, i)

OnlyDeltas(log, i) == \A n \in 1..Len(log) : log[n].item = i => log[n].kind = "delta"

\* C8: for an active turn and an item id that received only deltas, the
\* per-item text is the concatenation of those deltas in arrival order
\* (there is no entry before the first one), and right after a delta the
\* last agent text is that item's accumulated text.
C8_DeltasConcatenateInOrder ==
  \A u \in DOMAIN turns :
    LET t == turns[u]
        log == g.log[t.owner]
    IN \A i \in Items :
         OnlyDeltas(log, i) =>
           /\ IF \E n \in 1..Len(log) : log[n].item = i
              THEN i \in DOMAIN t.itemTexts /\ t.itemTexts[i] = DeltasOf(log, i)
              ELSE i \notin DOMAIN t.itemTexts
           /\ (log # << >> /\ log[Len(log)].kind = "delta" /\ log[Len(log)].item = i)
                => t.lastAgentText = DeltasOf(log, i)

\* Deltas "a" and " " to item i1, with a delta to i2 between them.
C8_Witness ==
  /\ "u1" \in DOMAIN turns
  /\ DOMAIN turns["u1"].itemTexts = Items
  /\ turns["u1"].itemTexts["i1"] = <<"a", " ">>
  /\ turns["u1"].lastAgentText = <<"a", " ">>
  /\ g.log[turns["u1"].owner][Len(g.log[turns["u1"].owner])].item = "i1"
  /\ \A n \in 1..Len(g.log[turns["u1"].owner]) :
       g.log[turns["u1"].owner][n].kind = "delta"

ItemCompletedLines ==
  {l \in TextLines : l.msg.method = "item/completed"}

\* C9: an item/completed of type agentMessage for an active turn sets the
\* text of its item id to the item's final text (the empty text when the
\* text is not a string), whatever the deltas had accumulated, and leaves
\* the other items' texts alone; an item/completed of another type, or with
\* no item, changes nothing.
C9_ItemCompletedReplaces ==
  [][\A l \in ItemCompletedLines :
       LET p == l.msg.params
           u == p.turnId
       IN (u \in DOMAIN turns /\ HandleLine(l, MaxUpdates)) =>
            IF p.hasItem /\ p.itemType = "agentMessage"
            THEN /\ u \in DOMAIN turns'
                 /\ \A j \in Items :
                      IF j = p.itemIdC
                      THEN /\ j \in DOMAIN turns'[u].itemTexts
                           /\ turns'[u].itemTexts[j] =
                                (IF p.textIsString THEN p.text ELSE NoText)
                      ELSE /\ (j \in DOMAIN turns'[u].itemTexts) = (j \in DOMAIN turns[u].itemTexts)
                           /\ j \in DOMAIN turns[u].itemTexts
                                => turns'[u].itemTexts[j] = turns[u].itemTexts[j]
            ELSE turns' = turns /\ call' = call]_vars

\* The final text "b" of item i1 after the deltas "a" and " " to it.
C9_Witness ==
  /\ "u1" \in DOMAIN turns
  /\ LET log == g.log[turns["u1"].owner] IN
     /\ Len(log) = MaxUpdates
     /\ log[1] = Logged("delta", "i1", <<"a">>)
     /\ log[2] = Logged("delta", "i1", <<" ">>)
     /\ log[MaxUpdates] = Logged("completed", "i1", <<"b">>)
  /\ turns["u1"].itemTexts["i1"] = <<"b">>

\* ------------------------------------------------------ timeout and after
TurnCompletedLinesOf(u) ==
  {l \in TurnsLines : l.msg.method = "turn/completed" /\ l.msg.params.tcId = u}

NotificationLinesOf(u) ==
  {l \in TurnsLines : \/ l.msg.method = "turn/completed" /\ l.msg.params.tcId = u
                      \/ l.msg.method \in {"item/agentMessage/delta", "item/completed"}
                           /\ l.msg.params.turnId = u}

\* The timer of a turn fires: the turn had a positive timeout and no
\* turn/completed, its id leaves the registry and its caller is rejected
\* with the timeout error.
TimerRejects(c) ==
  TimerFire(c) =>
    /\ call[c].tmo.has /\ call[c].tmo.ms > 0
    /\ call[c].pc = "tracking"
    /\ call[c].turnId \notin DOMAIN turns'
    /\ call'[c].pc = "done"
    /\ call'[c].out = Threw(ErrTimeout)
    /\ call'[c].tResolves = 0
    /\ \A b \in Callers \ {c} : call'[b] = call[b]

\* C6 as stated: the timer removes the turn and rejects its caller with
\* the timeout error, and every turn/completed for that turn id handled
\* after the timer fired changes no state and settles no caller.
C6_LateCompletionChangesNothing ==
  [][\A c \in Callers :
       /\ TimerRejects(c)
       /\ call[c].timer = "fired" =>
            \A l \in TurnCompletedLinesOf(call[c].turnId) :
              HandleLine(l, ProtoUpdates) => UNCHANGED core]_vars

\* C6, amended: the timer removes the turn and rejects its caller with the
\* timeout error; a turn/completed for that turn id handled after the timer
\* fired never changes the timed-out call, and changes no state and settles
\* no caller while no later runTurn has registered a tracker under the id.
C6_LateCompletionInertUntilReuse ==
  [][\A c \in Callers :
       /\ TimerRejects(c)
       /\ call[c].timer = "fired" =>
            \A l \in TurnCompletedLinesOf(call[c].turnId) :
              HandleLine(l, ProtoUpdates) =>
                /\ call'[c] = call[c]
                /\ call[c].turnId \notin DOMAIN turns => UNCHANGED core]_vars

\* A call rejected by its timer, and a turn/completed for its turn id
\* handled afterwards while another turn is active.
C6_Witness ==
  \E c \in Callers :
    /\ call[c].timer = "fired"
    /\ call[c].pc = "done"
    /\ call[c].out = Threw(ErrTimeout)
    /\ <<call[c].turnId, TRUE>> \in g.inert
    /\ \E b \in Callers \ {c} : ActiveTurn(b)

\* C7 as stated: once a tracker of turn id u was destroyed by turn/completed
\* or by its timer, every later notification naming u changes nothing.
C7_DestroyedIdInert ==
  [][\A u \in TurnIds :
       Destroyed(u) =>
         \A l \in NotificationLinesOf(u) :
           HandleLine(l, ProtoUpdates) => UNCHANGED core]_vars

\* C7, amended: once a tracker of turn id u was destroyed, a notification
\* naming u changes nothing (registry, pending table, other trackers,
\* callers) for as long as no later runTurn has registered a tracker under u.
C7_DestroyedIdInertUntilReuse ==
  [][\A u \in TurnIds :
       (Destroyed(u) /\ u \notin DOMAIN turns) =>
         \A l \in NotificationLinesOf(u) :
           HandleLine(l, ProtoUpdates) => UNCHANGED core]_vars

\* A text notification and a turn/completed were handled for a destroyed
\* turn id while another turn is active.
C7_Witness ==
  \E u \in TurnIds :
    /\ Destroyed(u)
    /\ u \notin DOMAIN turns
    /\ {<<u, FALSE>>, <<u, TRUE>>} \subseteq g.inert
    /\ \E b \in Callers : ActiveTurn(b)

\* --------------------------------------------------------------- start()
\* C10: a call that finds the session started spawns nothing and writes
\* nothing; a call that finds an attempt in progress awaits that attempt
\* and spawns nothing; since the last stop() (or construction) at most one
\* process was spawned and at most one initialize request written.
C10_StartIdempotent ==
  /\ [](g.sinceStop <= 1 /\ g.initsSinceStop <= 1)
  /\ [][\A c \in Callers :
          (call[c].pc = "idle" /\ call'[c].pc = "awaitStart") =>
            IF started
            THEN /\ call'[c].att = 0
                 /\ nspawn' = nspawn /\ wire' = wire /\ child' = child
            ELSE IF startPromise # 0
            THEN /\ call'[c].att = startPromise
                 /\ nspawn' = nspawn /\ wire' = wire /\ child' = child
            ELSE /\ call'[c].att = nspawn'
                 /\ nspawn' = nspawn + 1]_vars

\* Every caller awaits the one attempt in flight, whose initialize request
\* is the only message written.
C10_Witness ==
  /\ startPromise # 0
  /\ startPromise = nspawn
  /\ \A c \in Callers : call[c].pc = "awaitStart" /\ call[c].att = startPromise
  /\ attempt[startPromise].pc = "awaitReq"
  /\ wire[startPromise] = <<Req(attempt[startPromise].reqId, "initialize")>>
  /\ g.sinceStop = 1
  /\ g.initsSinceStop = 1

\* ------------------------------------------------------------- stop()
StopStep == nstop' = nstop + 1

\* C13: stop() detaches the reader and sends SIGTERM to the child; after
\* the grace period it sends SIGKILL if the child is still alive then, and
\* nothing otherwise; a stop() that finds no child sends no signal and
\* fails no caller.
C13_StopTerminatesThenKills ==
  [][/\ StopStep =>
          /\ reader' = 0
          /\ call' = call
          /\ IF child = 0 THEN proc' = proc /\ stops' = stops
             ELSE /\ \A a \in Attempts \ {child} : proc'[a] = proc[a]
                  /\ proc[child].state = "alive" =>
                       proc'[child].signals = Append(proc[child].signals, "SIGTERM")
     /\ \A a \in Attempts :
          StopGrace(a) =>
            proc'[a].signals =
              IF proc[a].state = "alive" THEN Append(proc[a].signals, "SIGKILL")
              ELSE proc[a].signals]_vars

\* C15: a process exit and a stop() leave the pending table and the turn
\* registry as they are and settle no caller; a request in flight leaves
\* its await only by a Response of its id, and a turn without a timer
\* leaves the registry and settles only by a turn/completed of its id.
C15_ExitAndStopSettleNothing ==
  [][/\ (StopStep \/ \E a \in Attempts : Exit(a) \/ StopGrace(a)) =>
          pending' = pending /\ turns' = turns /\ call' = call /\ attempt' = attempt
     /\ \A c \in Callers :
          /\ (call[c].pc = "awaitReq" /\ call'[c] # call[c]) =>
               \E l \in LifeLines :
                 /\ isRpcResponse(l.msg)
                 /\ normalizeId(l.msg.id) = StringOf(call[c].reqId)
                 /\ HandleLine(l, ProtoUpdates)
          /\ (call[c].pc = "tracking" /\ call[c].timer = "none" /\ call'[c] # call[c]) =>
               HandleLine(TurnCompletedLine(call[c].turnId, "completed", FALSE, ""),
                          ProtoUpdates)]_vars

\* After stop() and the exit of the process, a request and a turn with no
\* timer are still in flight.
C15_Witness ==
  /\ nstop > 0
  /\ child = 0
  /\ \A a \in Attempts : proc[a].state # "alive"
  /\ \E a \in Attempts : proc[a].state = "exited"
  /\ \E c \in Callers :
       /\ call[c].pc = "tracking" /\ call[c].timer = "none"
       /\ call[c].turnId \in DOMAIN turns
  /\ \E c \in Callers :
       call[c].pc = "awaitReq" /\ StringOf(call[c].reqId) \in DOMAIN pending

\* ------------------------------------------------------------ handshake
TurnOrThreadRequest(w) ==
  w.k = "request" /\ w.method \in {"thread/start", "thread/resume", "turn/start"}

\* The initialize request of process a was answered with a non-empty
\* result and startInternal is about to go on from there.
InitializeAnswered(a) ==
  /\ attempt[a].pc = "gotResp"
  /\ attempt[a].resp.k = "result"
  /\ attempt[a].resp.result.k # "null"

FirstIsInitialize(a) ==
  wire[a] # << >> => wire[a][1].k = "request" /\ wire[a][1].method = "initialize"

InitializedBeforeRequests(a) ==
  \A n \in 1..Len(wire[a]) :
    TurnOrThreadRequest(wire[a][n]) =>
      \E k \in 1..(n - 1) : wire[a][k] = Notif("initialized")

\* C11: for every process, the first message written to it is the
\* initialize request; initialized is written to it only once its own
\* initialize request was answered with a non-empty result; the session
\* becomes started only in that step; no thread/start, thread/resume or
\* turn/start is written to it before its initialized notification.
C11_HandshakeOrder ==
  /\ [](\A a \in Attempts : FirstIsInitialize(a) /\ InitializedBeforeRequests(a))
  /\ [][/\ \A a \in Attempts :
            wire'[a] = Append(wire[a], Notif("initialized")) => InitializeAnswered(a)
        /\ (started' /\ ~started) =>
             /\ child # 0
             /\ InitializeAnswered(child)
             /\ wire'[child] = Append(wire[child], Notif("initialized"))]_vars

\* Attempt a fails in this step because its process has no stdout, or its
\* initialize request was answered with an empty result or an RPC error.
HandshakeFails(a) ==
  /\ attempt[a].pc # "rejected"
  /\ attempt'[a].pc = "rejected"
  /\ attempt'[a].err # ErrNotRunning

\* C12: when the process has no output stream, or its initialize request
\* yields an empty result or an RPC error, the start attempt fails, every
\* caller awaiting it gets its error, the session is not started and no
\* initialized notification was written to the process.
C12_FailedHandshakeLeavesNotStarted ==
  /\ [](\A c \in Callers :
          (call[c].pc = "done" /\ call[c].att # 0
             /\ attempt[call[c].att].pc = "rejected")
          => call[c].out = Threw(attempt[call[c].att].err))
  /\ [][\A a \in Attempts :
          HandshakeFails(a) =>
            /\ attempt'[a].err \in {ErrStdout, ErrInitialize, "boom"}
            /\ ~started'
            /\ \A n \in 1..Len(wire'[a]) : wire'[a][n] # Notif("initialized")]_vars

\* The current child was spawned by a start() made after a stop().
Respawned == nstop > 0 /\ child # 0 /\ g.sinceStop > 0

\* C14: stop() clears started and the start attempt; the first call after
\* it that goes through start() spawns a new process and writes initialize
\* to it; and on that process the whole handshake comes first: initialized
\* is written, and the session started, only once that process's initialize
\* request was answered, and no other request is written before.
C14_RestartHandshakesAnew ==
  /\ [](Respawned => FirstIsInitialize(child) /\ InitializedBeforeRequests(child))
  /\ [][/\ StopStep => ~started' /\ startPromise' = 0
        /\ \A c \in Callers :
             (nstop > 0 /\ g.sinceStop = 0
                /\ call[c].pc = "idle" /\ call'[c].pc = "awaitStart")
             => /\ nspawn' = nspawn + 1
                /\ child' = nspawn'
                /\ call'[c].att = child'
        /\ (Respawned /\ child' = child) =>
             /\ wire'[child] = Append(wire[child], Notif("initialized"))
                  => InitializeAnswered(child)
             /\ (started' /\ ~started) => InitializeAnswered(child)]_vars

\* ------------------------------------------------------------ responses
\* The pending request a Response line answers, if any.
Answers(l, c) ==
  /\ isRpcResponse(l.msg)
  /\ normalizeId(l.msg.id) \in DOMAIN pending
  /\ pending[normalizeId(l.msg.id)] = CallerOwner(c)
  /\ call[c].pc = "awaitReq"

OthersKeepWaiting(l, c) ==
  /\ \A b \in Callers \ {c} : call'[b] = call[b]
  /\ attempt' = attempt
  /\ pending' = [k \in DOMAIN pending \ {normalizeId(l.msg.id)} |-> pending[k]]

C17_UnmatchedResponseDiscarded ==
  [][\A l \in RouterLines :
       (isRpcResponse(l.msg) /\ normalizeId(l.msg.id) \notin DOMAIN pending
          /\ HandleLine(l, ProtoUpdates))
       => UNCHANGED core]_vars

\* Responses with a never allocated id, with an id consumed since the
\* restart and with an id from before the restart were dropped while a
\* request is pending.
C17_Witness ==
  /\ g.discarded = {"unknown", "consumed", "stale"}
  /\ nstop > 0
  /\ \E c \in Callers :
       call[c].pc = "awaitReq" /\ StringOf(call[c].reqId) \in DOMAIN pending

\* ------------------------------------------------------- classification
\* The predicates of a message that hold, as the code computes them.
ClassesOf(m) ==
  {k \in {"response", "request", "notification"} :
     \/ k = "response" /\ isRpcResponse(m)
     \/ k = "request" /\ isRpcRequest(m)
     \/ k = "notification" /\ isRpcNotification(m)}

Classified(m) ==
  /\ isRpcResponse(m) <=> (m.hasId /\ (m.hasResult \/ m.hasError))
  /\ isRpcRequest(m) <=> (m.hasId /\ m.hasMethod /\ ~m.hasResult /\ ~m.hasError)
  /\ isRpcNotification(m) <=> (~m.hasId /\ m.hasMethod)
  /\ Cardinality(ClassesOf(m)) <= 1
  /\ (m.hasMethod \/ (m.hasId /\ (m.hasResult \/ m.hasError)))
       => Cardinality(ClassesOf(m)) = 1

\* What the step of a line handler did, told from the fields it changed.
Dispatched(l) ==
  LET m == l.msg IN
  /\ isRpcResponse(m) =>
       /\ wire' = wire /\ turns' = turns /\ g' = g
       /\ normalizeId(m.id) \notin DOMAIN pending'
  /\ isRpcRequest(m) =>
       /\ pending' = pending /\ turns' = turns /\ call' = call
       /\ Len(wire'[child]) = Len(wire[child]) + 1
  /\ isRpcNotification(m) =>
       /\ pending' = pending /\ wire' = wire
       /\ m.params.tcId \notin DOMAIN turns'
  /\ ClassesOf(m) = {} => UNCHANGED vars

\* C18: over every combination of id, method, result and error present or
\* absent, at most one of Response, Request and Notification holds, exactly
\* one holds when the message has a method or an id with a result or error,
\* and the router handles the message as that one predicate says.
C18_OnePredicateDispatches ==
  /\ [](\A m \in InboundMessages : Classified(m))
  /\ [][\A l \in InboundLines :
          HandleLine(l, ProtoUpdates) => Dispatched(l)]_vars

\* A caller was settled by a message that carries id, method, result and
\* error, an inbound Request was answered, and a turn was completed by a
\* notification.
C18_Witness ==
  /\ \E c \in Callers :
       /\ call[c].by.hasId /\ call[c].by.hasMethod
       /\ call[c].by.hasResult /\ call[c].by.hasError
  /\ g.replies = 1
  /\ \E c \in Callers : call[c].out.k = "resolved"

\* The result the policy prescribes for a method it answers.
PolicyResult(method, autoApprove) ==
  CASE method \in {"item/commandExecution/requestApproval",
                   "item/fileChange/requestApproval"} ->
         IF autoApprove THEN "{decision:accept}" ELSE "{decision:decline}"
    [] method = "item/tool/requestUserInput" -> "{answers:{}}"
    [] OTHER -> "{output:clawd does not support dynamic tool calls,success:false}"

OnlyWrites(reply) ==
  /\ wire' = [wire EXCEPT ![child] = Append(@, reply)]
  /\ UNCHANGED <<child, reader, nextId, pending, turns, started, startPromise,
                 attempt, nspawn, nstop, call, opts, proc, stops>>

\* C19: the reply to an inbound Request with one of the four answered
\* methods is the result fixed by the method and by autoApprove (accept or
\* decline for the two approvals, empty answers, success false), whatever
\* requests are pending and whatever turns are active, and nothing else
\* changes.
C19_ReplyFixedByMethodAndAutoApprove ==
  [][\A l \in InboundLines :
       (isRpcRequest(l.msg) /\ l.msg.method \in ServerRequestMethods
          /\ HandleLine(l, ProtoUpdates))
       => OnlyWrites(ResultReply(l.msg.id, PolicyResult(l.msg.method, opts.autoApprove)))]_vars

\* An approval was accepted under autoApprove while a request was pending
\* under the same id and a turn was active.
C19_Witness ==
  /\ opts.autoApprove
  /\ g.replies = 1
  /\ wire[child][Len(wire[child])] = ResultReply(NumId(2), "{decision:accept}")
  /\ "2" \in DOMAIN pending
  /\ DOMAIN turns # {}

\* C20: an inbound Request with a method the policy does not answer gets an
\* error reply of code -32601, "auth token refresh unsupported" for
\* account/chatgptAuthTokens/refresh and "unsupported request: <method>"
\* otherwise; nothing else changes, no caller fails, and the reader keeps
\* handling lines.
C20_UnsupportedAnsweredInProtocol ==
  [][\A l \in InboundLines :
       (isRpcRequest(l.msg) /\ l.msg.method \notin ServerRequestMethods
          /\ HandleLine(l, ProtoUpdates))
       => /\ OnlyWrites(ErrorReply(l.msg.id, -32601,
                 IF l.msg.method = "account/chatgptAuthTokens/refresh"
                 THEN "auth token refresh unsupported"
                 ELSE "unsupported request: " \o l.msg.method))
          /\ reader' # 0]_vars

\* After the error reply to an unrecognized method a caller wrote its
\* request and the Response to it was handled.
C20_Witness ==
  \E i \in 1..Len(wire[child]) : \E j \in (i+1)..Len(wire[child]) : \E c \in Callers :
    /\ wire[child][i] = ErrorReply(NumId(2), -32601, "unsupported request: bogus/method")
    /\ wire[child][j] = Req(call[c].reqId, "turn/start")
    /\ call[c].pc = "gotResp"
    /\ call[c].resp.k = "result"

\* ------------------------------------------------------------ bad lines
\* C21: a blank line or a line that is not JSON changes nothing - not the
\* pending table, the registry, the started flag, a caller, nor what was
\* written - so that the lines after it are handled from the state the
\* client was in before it.
C21_BadLineDropped ==
  [][\A l \in BadLines : HandleLine(l, ProtoUpdates) => UNCHANGED core]_vars

\* A blank and an unparsable line were dropped while a request was pending
\* and a turn active, and the Response to a request written after one of
\* them and a turn/completed were handled.
C21_Witness ==
  /\ {d[1] : d \in g.dropped} = {"blank", "malformed"}
  /\ \E d \in g.dropped :
       /\ d[2] > 2
       /\ \E c \in Callers :
            call[c].reqId >= d[2] /\ call[c].pc = "tracking"
  /\ \E c \in Callers : call[c].out.k = "resolved"

\* ------------------------------------------------- independent callers
\* The tracker of turn id v and the calls waiting on it are left alone.
TurnUntouched(v) ==
  /\ (v \in DOMAIN turns) <=> (v \in DOMAIN turns')
  /\ v \in DOMAIN turns => turns'[v] = turns[v]
  /\ \A b \in Callers :
       (call[b].pc = "tracking" /\ call[b].turnId = v) => call'[b] = call[b]

ResponseLinesOf(c) ==
  {l \in TurnsLines : isRpcResponse(l.msg)
                        /\ normalizeId(l.msg.id) = StringOf(call[c].reqId)}

\* C22: with several turns and requests in flight, a notification naming
\* turn id u leaves the tracker and the caller of every other turn id
\* alone; a call waiting on a turn is settled by the turn/completed of its
\* turn id and by its own timer, and loses its tracker to nobody else's
\* timer; a call waiting on a request is settled by its Response, whatever
\* turns are active.
C22_CallersIndependent ==
  [][/\ \A u \in TurnIds : \A l \in NotificationLinesOf(u) :
          HandleLine(l, ProtoUpdates) => \A v \in TurnIds \ {u} : TurnUntouched(v)
     /\ \A c \in Callers :
          call[c].pc = "tracking" =>
            /\ \A l \in TurnCompletedLinesOf(call[c].turnId) :
                 HandleLine(l, ProtoUpdates) => call'[c].pc = "done"
            /\ TimerFire(c) => call'[c].pc = "done"
            /\ \A b \in Callers \ {c} :
                 TimerFire(b) => call'[c] = call[c] /\ call[c].turnId \in DOMAIN turns'
     /\ \A c \in Callers :
          call[c].pc = "awaitReq" =>
            \A l \in ResponseLinesOf(c) :
              HandleLine(l, ProtoUpdates) => call'[c].pc = "gotResp" /\ turns' = turns]_vars

\* ---------------------------------------------------- missing identifiers
\* What the operation of call c makes of the Response m that settled its
\* request.
OperationOutcome(c, m) ==
  LET op == call[c].op
      hasThread == m.hasResult /\ m.result.k = "thread" /\ m.result.id # ""
      hasTurn == m.hasResult /\ m.result.k = "turn" /\ m.result.id # ""
  IN IF m.hasError /\ m.error.k # "null"
     THEN "throws"
     ELSE IF op = "runTurn"
     THEN IF hasTurn THEN "tracks" ELSE "throws"
     ELSE IF hasThread THEN "returns" ELSE "throws"

ExplanatoryError(c, m) ==
  IF m.hasError /\ m.error.k # "null" THEN m.error.msg
  ELSE IF call[c].op = "threadStart"
  THEN "codex app-server thread/start missing thread id"
  ELSE IF call[c].op = "threadResume"
  THEN "codex app-server thread/resume missing thread id"
  ELSE "codex app-server turn/start missing turn id"

\* C23: threadStart and threadResume return {threadId} when the Response
\* carries thread.id and throw the operation's error when it does not;
\* runTurn throws when the Response carries no turn.id or is an RPC error,
\* without a tracker and without a timer; only the caller of the operation
\* is affected.
C23_MissingIdFailsOnlyCaller ==
  [][\A c \in Callers :
       ContinueResp(c) =>
         LET m == call[c].by IN
         /\ \A b \in Callers \ {c} : call'[b] = call[b]
         /\ pending' = pending
         /\ OperationOutcome(c, m) = "returns" =>
              /\ call'[c].out = [NoOut EXCEPT !.k = "resolved", !.threadId = m.result.id]
              /\ turns' = turns
         /\ OperationOutcome(c, m) = "throws" =>
              /\ call'[c].pc = "done"
              /\ call'[c].out.k = "rejected"
              /\ call'[c].out.err = ExplanatoryError(c, m)
              /\ turns' = turns
              /\ call'[c].timer = "none"
         /\ OperationOutcome(c, m) = "tracks" =>
              /\ call'[c].pc = "tracking"
              /\ m.result.id \in DOMAIN turns']_vars

\* A runTurn with a timeout threw for want of a turn id, with no timer,
\* while the turn of the other call stayed active.
C23_Witness ==
  \E c \in Callers :
    /\ call[c].op = "runTurn" /\ call[c].tmo.has
    /\ call[c].out = Threw(ErrTurnStart)
    /\ call[c].timer = "none"
    /\ \E b \in Callers \ {c} : ActiveTurn(b)

\* ----------------------------------------------------------- request ids
\* The ids of the requests written to process a, in the order written.
RECURSIVE RequestIds(_)
RequestIds(w) ==
  IF w = << >> THEN << >>
  ELSE IF Head(w).k = "request" THEN <<Head(w).id.n>> \o RequestIds(Tail(w))
  ELSE RequestIds(Tail(w))

\* Process a + 1 is spawned after the last write to process a, so this is
\* the order in which the client wrote its requests.
RECURSIVE RequestsWritten(_)
RequestsWritten(a) ==
  IF a = 0 THEN << >> ELSE RequestsWritten(a - 1) \o RequestIds(wire[a])

StrictlyIncreasing(ids) ==
  \A i, j \in 1..Len(ids) : i < j => ids[i] < ids[j]

\* The requests in flight or settled, each with the id allocated to it.
Allocations ==
  {<<"caller", c, call[c].reqId>> : c \in {b \in Callers : call[b].reqId # 0}}
    \cup {<<"attempt", a, attempt[a].reqId>> :
            a \in {b \in Attempts : attempt[b].reqId # 0}}

\* C24: the requests a client writes carry strictly increasing ids, across
\* callers and across stop() and start(); no two requests were given the
\* same id, so no two share a pending key; and a request is only ever
\* settled by a Response carrying its own id, a Response to a request from
\* before the restart included.
C24_IdsStrictlyIncrease ==
  /\ StrictlyIncreasing(RequestsWritten(MaxSpawns))
  /\ \A i \in 1..Len(RequestsWritten(MaxSpawns)) : RequestsWritten(MaxSpawns)[i] < nextId
  /\ \A x, y \in Allocations : x[3] = y[3] => x = y
  /\ \A k \in DOMAIN pending :
       \E x \in Allocations : StringOf(x[3]) = k /\ pending[k] = <<x[1], x[2]>>
  /\ \A c \in Callers :
       (call[c].pc = "gotResp" /\ ~call[c].wfail) =>
         normalizeId(call[c].by.id) = StringOf(call[c].reqId)

\* After a restart a request written to the first process was settled by
\* its late Response while a request written to the second process was
\* pending.
C24_Witness ==
  /\ nstop > 0
  /\ \E c, b \in Callers :
       /\ call[c].pc = "gotResp" /\ call[c].reqId < g.idAtStop /\ ~call[c].wfail
       /\ call[b].pc = "awaitReq" /\ call[b].reqId > g.idAtStop
       /\ StringOf(call[b].reqId) \in DOMAIN pending
       /\ Req(call[b].reqId, "turn/start") = wire[child][Len(wire[child])]

\* ------------------------------------------------------ local cancellation
\* C25 as stated: a firing timer writes nothing to the process, and every
\* notification naming the timed-out turn's id handled afterwards changes
\* nothing.
C25_TimeoutLocalOutputDropped ==
  [][\A c \in Callers :
       /\ TimerFire(c) => wire' = wire
       /\ call[c].timer = "fired" =>
            \A l \in NotificationLinesOf(call[c].turnId) :
              HandleLine(l, ProtoUpdates) => UNCHANGED core]_vars

\* C25, amended: a firing timer writes nothing to the process; a
\* notification naming the timed-out turn's id handled afterwards writes
\* nothing and never changes the timed-out call, and changes nothing at all
\* while no later runTurn has registered a tracker under that id.
C25_TimeoutLocalOutputDroppedUntilReuse ==
  [][\A c \in Callers :
       /\ TimerFire(c) => wire' = wire
       /\ call[c].timer = "fired" =>
            \A l \in NotificationLinesOf(call[c].turnId) :
              HandleLine(l, ProtoUpdates) =>
                /\ wire' = wire
                /\ call'[c] = call[c]
                /\ call[c].turnId \notin DOMAIN turns => UNCHANGED core]_vars

\* A turn timed out, a text notification and a turn/completed naming it
\* were handled afterwards, and all that was ever written are the
\* handshake and the turn/start requests.
C25_Witness ==
  \E c \in Callers :
    /\ call[c].timer = "fired"
    /\ call[c].out = Threw(ErrTimeout)
    /\ \A b \in Callers \ {c} : call[b].turnId # call[c].turnId
    /\ {<<call[c].turnId, FALSE>>, <<call[c].turnId, TRUE>>} \subseteq g.inert
    /\ \A i \in 3..Len(wire[child]) : wire[child][i].method = "turn/start"
    /\ Len(wire[child]) = 4

\* --------------------------------------------------- pending table entries
\* C26: the pending table holds an entry for a request id only while the
\* sendRequest call that allocated the id is still waiting; once the call
\* has settled, for whatever reason, its id is not a key of the table.
C26_PendingOnlyWhileSuspended ==
  \A k \in DOMAIN pending :
    IF pending[k][1] = "caller"
    THEN /\ call[pending[k][2]].pc = "awaitReq"
         /\ StringOf(call[pending[k][2]].reqId) = k
    ELSE /\ attempt[pending[k][2]].pc = "awaitReq"
         /\ StringOf(attempt[pending[k][2]].reqId) = k

\* ------------------------------------------------------ stop during start
\* The start attempt a is no longer the one start() would join: a stop()
\* has run since it began.
Overtaken(a) == attempt[a].pc # "none" /\ startPromise # a

\* C27: the session is started only when the start attempt made after the
\* last stop() has completed its handshake with the current process, and
\* the continuation of an overtaken attempt neither marks the session
\* started nor writes anything to a process.
C27_OvertakenStartInert ==
  /\ [](started => /\ startPromise # 0
                   /\ child = startPromise
                   /\ attempt[startPromise].pc = "resolved")
  /\ [][\A a \in Attempts :
          (Overtaken(a) /\ ContinueAttempt(a)) => (started' = started /\ wire' = wire)]_vars

\* ------------------------------------------------------- failed start
\* The start attempt start() would join has failed.
StartFailed == startPromise # 0 /\ attempt[startPromise].pc = "rejected"

\* C28: while the attempt of the last start() has failed and no stop() has
\* run since, a call that enters start() spawns nothing and joins the
\* failed attempt, and a call that joined a failed attempt throws that
\* attempt's error.
C28_FailedStartSticks ==
  [][\A c \in Callers :
       /\ (StartFailed /\ call[c].pc = "idle" /\ call'[c].pc = "awaitStart") =>
            /\ nspawn' = nspawn
            /\ wire' = wire
            /\ call'[c].att = startPromise
       /\ (ContinueStart(c) /\ call[c].att # 0 /\ attempt[call[c].att].pc = "rejected") =>
            /\ call'[c].out = Threw(attempt[call[c].att].err)
            /\ pending' = pending /\ wire' = wire]_vars

\* ------------------------------------------------------------- timeouts
\* C29: a runTurn call made with a positive timeoutMs on a started session
\* eventually resolves or rejects, whatever the process does, provided the
\* armed timers fire.
C29_TimedTurnSettles ==
  \A c \in Callers :
    (call[c].op = "runTurn" /\ ArmsTimer(call[c].tmo) /\ call[c].pc # "idle")
      ~> (call[c].pc = "done")

\* A runTurn call made without a positive timeoutMs.
Untimed(c) ==
  call[c].op = "runTurn" /\ (~call[c].tmo.has \/ call[c].tmo.ms <= 0)

\* C30: a runTurn call with timeoutMs absent, zero or negative has no
\* timer and is never rejected with the timeout error, and while it waits
\* for its turn the turn's id leaves the registry only when a
\* turn/completed for that id is handled.
C30_UntimedTurnWaitsForCompletion ==
  /\ [](\A c \in Callers :
          Untimed(c) => /\ call[c].timer = "none"
                        /\ call[c].tRejects = 0
                        /\ call[c].out # Threw(ErrTimeout))
  /\ [][\A c \in Callers :
          (Untimed(c) /\ call[c].pc = "tracking"
             /\ call[c].turnId \in DOMAIN turns /\ call[c].turnId \notin DOMAIN turns')
          => HandleLine(TurnCompletedLine(call[c].turnId, "completed", FALSE, ""),
                        ProtoUpdates)]_vars

\* ------------------------------------------------- replies to the process
\* C31: handling an inbound Request writes exactly one message, a reply
\* carrying the Request's id, to the process that sent it, and leaves the
\* pending table, the registry, the callers and the start attempts alone,
\* also when the id is that of one of the client's outstanding requests.
C31_OneReplySameId ==
  [][\A l \in InboundLines :
       (isRpcRequest(l.msg) /\ HandleLine(l, ProtoUpdates)) =>
         /\ child = reader
         /\ Len(wire'[child]) = Len(wire[child]) + 1
         /\ SubSeq(wire'[child], 1, Len(wire[child])) = wire[child]
         /\ wire'[child][Len(wire'[child])].k \in {"result", "error"}
         /\ wire'[child][Len(wire'[child])].id = l.msg.id
         /\ \A a \in Attempts \ {child} : wire'[a] = wire[a]
         /\ pending' = pending /\ turns' = turns
         /\ call' = call /\ attempt' = attempt]_vars

\* A Request carrying the id of the second call's outstanding request was
\* answered under that id while both calls' requests stayed pending.
C31_Witness ==
  /\ g.replies = 1
  /\ wire[child][Len(wire[child])] =
       ErrorReply(NumId(3), -32601, "unsupported request: turn/completed")
  /\ DOMAIN pending = {"2", "3"}
  /\ \A c \in Callers : call[c].pc = "awaitReq"

\* ------------------------------------------------------- timers and ids
\* C32: a firing timer removes no tracker but the one its own runTurn call
\* created and changes no other call, also when the process has issued the
\* turn id again; and every call waiting on a turn has its tracker in the
\* registry.
C32_TimerRemovesOwnTrackerOnly ==
  /\ [](\A c \in Callers : call[c].pc = "tracking" => ActiveTurn(c))
  /\ [][\A c \in Callers :
          TimerFire(c) =>
            /\ \A u \in DOMAIN turns :
                 turns[u].owner # c => (u \in DOMAIN turns' /\ turns'[u] = turns[u])
            /\ \A b \in Callers \ {c} : call'[b] = call[b]]_vars

\* ---------------------------------------------------- JSON that is no message
\* C33: the line handler raises for no line that parses as JSON, and a line
\* holding a primitive value, an array or an object of none of the three
\* shapes changes no state of the client.
C33_ParsedLineNeverRaises ==
  /\ [](g.raised = {})
  /\ [][\A l \in ValueLines \cup ShapelessLines :
          HandleLine(l, ProtoUpdates) => UNCHANGED core]_vars

\* ------------------------------------------------------ the heartbeat timer
\* setTimeout calls the model follows.
MaxTimers == 6

\* timer = setTimeout(tick, intervalMs): a fresh handle, armed.
SetTimeout ==
  /\ made < MaxTimers
  /\ made' = made + 1
  /\ timer' = made + 1
  /\ timers' = timers \cup {made + 1}

\* start(): nothing while timer holds a handle, armed or fired.
heartbeat_start ==
  /\ IF timer # 0 THEN UNCHANGED runtime
     ELSE /\ SetTimeout
          /\ wakeHandler' = TRUE
          /\ UNCHANGED <<runs, beat, sessions>>
  /\ UNCHANGED <<core, g>>

\* stop(): clearTimeout of a handle that has fired clears nothing.
heartbeat_stop ==
  /\ wakeHandler' = FALSE
  /\ timers' = timers \ {timer}
  /\ timer' = 0
  /\ UNCHANGED <<made, runs, beat, sessions, core, g>>

\* An armed timeout fires: tick() calls runOnce, which up to its first
\* await writes nothing, and waits for it; timer keeps the fired handle.
tick(t) ==
  /\ t \in timers
  /\ timers' = timers \ {t}
  /\ runs' = runs + 1
  /\ UNCHANGED <<timer, made, wakeHandler, beat, sessions, core, g>>

\* The finally callback of tick(): an interval run has settled.
tickFinally ==
  /\ runs > 0
  /\ runs' = runs - 1
  /\ IF timer # 0 THEN SetTimeout ELSE UNCHANGED <<timer, timers, made>>
  /\ UNCHANGED <<wakeHandler, beat, sessions, core, g>>

\* start() and stop() called at any time (startSchedulers, stopSchedulers,
\* the signal handlers), timeouts firing, interval runs settling.
NextBeat ==
  \/ heartbeat_start
  \/ heartbeat_stop
  \/ \E t \in 1..MaxTimers : tick(t)
  \/ tickFinally

SpecBeat == Init /\ [][NextBeat]_vars

\* C35: at most one interval timeout is armed at a time, start() while a
\* timeout is armed arms nothing, and no interval run starts between a
\* stop() and the next start().
C35_OneTimerChain ==
  /\ [](Cardinality(timers) <= 1)
  /\ [][(timers # {} /\ heartbeat_start) => UNCHANGED runtime]_vars
  /\ [][\A t \in 1..MaxTimers : tick(t) => timer # 0]_vars

\* ------------------------------------------------------- heartbeat runs
\* codex.hasPendingTurns(): this.turns.size > 0.
hasPendingTurns == DOMAIN turns # {}

\* What runOnce reads before its first await: heartbeat.enabled and whether
\* the clock is within the active hours.
BeatConfigs == {[enabled |-> e, active |-> a] : e \in BOOLEAN, a \in BOOLEAN}

\* What fs.readFile gives: no file, a file that is effectively empty, a
\* file with text.
HeartbeatFiles == {"missing", "empty", "text"}

\* runOnce() of caller c up to "await fs.readFile": the three tests.
runOnce(c, cfg) ==
  /\ beat[c] = "idle"
  /\ call[c].pc = "idle"
  /\ beat' = [beat EXCEPT ![c] =
                IF ~cfg.enabled THEN "disabled"
                ELSE IF ~cfg.active THEN "outside active hours"
                ELSE IF hasPendingTurns THEN "requests-in-flight"
                ELSE "reading"]
  /\ UNCHANGED <<timer, timers, made, runs, wakeHandler, sessions, core, g>>

\* runOnce() from the end of readFile to "await deps.ensureThread": an
\* effectively empty file or an empty prompt ends the run.
runOnceRead(c, content, promptEmpty) ==
  /\ beat[c] = "reading"
  /\ beat' = [beat EXCEPT ![c] =
                IF content = "empty" THEN "empty heartbeat"
                ELSE IF promptEmpty THEN "empty prompt"
                ELSE "ensuring"]
  /\ UNCHANGED <<timer, timers, made, runs, wakeHandler, sessions, core, g>>

\* deps.runTurn of a heartbeat run whose ensureThread calls have returned
\* (they write thread requests and no turn; SpecThreads follows them), and
\* runTurn of any other caller: codex.runTurn.
SubmitTurn(c) ==
  /\ beat[c] \in {"idle", "ensuring"}
  /\ Enter(c, "runTurn", NoTimeout)

\* runOnce() after codex.runTurn has settled: ran, or failed when it threw.
runOnceReturn(c) ==
  /\ beat[c] = "ensuring"
  /\ call[c].pc = "done"
  /\ beat' = [beat EXCEPT ![c] = IF call[c].out.k = "rejected" THEN "failed" ELSE "ran"]
  /\ UNCHANGED <<timer, timers, made, runs, wakeHandler, sessions, core, g>>

\* The turn id the process gives to the turn/start request with key k: a
\* different one per request.
PulseTurnId(k) == IF k = "2" THEN "u1" ELSE "u2"

PulseLines ==
  {JsonLine(ResultResponse(NumId(NumberOf(k)), RTurn(PulseTurnId(k)))) :
     k \in DOMAIN pending}
    \cup {TurnCompletedLine(u, "completed", FALSE, "") : u \in DOMAIN turns}

\* runOnce calls (interval, wake, cron) and other runTurn callers on a
\* started session.
NextPulse ==
  \/ \E c \in Callers, cfg \in BeatConfigs : runOnce(c, cfg)
  \/ \E c \in Callers, f \in HeartbeatFiles, e \in BOOLEAN : runOnceRead(c, f, e)
  \/ \E c \in Callers : SubmitTurn(c)
  \/ \E c \in Callers : ContinueStart(c)
  \/ \E c \in Callers : ContinueResp(c)
  \/ \E c \in Callers : runOnceReturn(c)
  \/ \E l \in PulseLines : HandleLine(l, ProtoUpdates)

SpecPulse == InitStarted /\ [][NextPulse]_vars

\* A turn in flight: turn/start written and the turn not yet terminal.
TurnInFlight(b) ==
  /\ call[b].op = "runTurn"
  /\ call[b].pc \in {"awaitReq", "gotResp", "tracking"}
  /\ ~call[b].wfail

\* C34: a heartbeat run writes no turn/start while another turn is in
\* flight, and a runOnce that starts while a turn is in flight on an
\* enabled heartbeat within its hours is skipped with requests-in-flight.
C34_NoHeartbeatTurnWhileInFlight ==
  /\ [][\A c \in Callers :
          (beat[c] = "ensuring" /\ ContinueStart(c) /\ call'[c].pc = "awaitReq")
            => \A b \in Callers \ {c} : ~TurnInFlight(b)]_vars
  /\ [][\A c \in Callers :
          ((\E b \in Callers : TurnInFlight(b))
             /\ runOnce(c, [enabled |-> TRUE, active |-> TRUE]))
            => beat'[c] = "requests-in-flight"]_vars

\* ------------------------------------------------------ the session store
\* value.trim().toLowerCase(), over the letters the keys are made of.
LowerChar(ch) == CASE ch = "M" -> "m" [] ch = "A" -> "a" [] OTHER -> ch

RECURSIVE toLowerCase(_)
toLowerCase(s) ==
  IF s = << >> THEN s ELSE <<LowerChar(Head(s))>> \o toLowerCase(Tail(s))

normalizeKey(value) == toLowerCase(Trim(value))

\* Session keys as callers write them: two spellings of one key, and
\* another key.
SessionKeys == {<<"M">>, <<" ", "m", " ">>, <<"a">>}
StoredThreadIds == {"t1", "t2"}
Routes == {"r1", "r2"}

\* The sessions file before the runtime starts: absent or empty, or holding
\* an entry under a key that is not normalized.
StoredFiles == {<< >>, [k \in {<<"M">>} |-> Entry("t0", "r0")]}

\* coerceStore: every entry under its normalized key.
coerceStore(raw) ==
  [k \in {normalizeKey(r) : r \in DOMAIN raw} |->
     raw[CHOOSE r \in DOMAIN raw : normalizeKey(r) = k]]

\* ensureLoaded(): the file is read once, while this.store is null.
ensureLoaded(st, f) ==
  IF st.loaded THEN st ELSE [loaded |-> TRUE, map |-> coerceStore(f)]

\* store[key], undefined as the entry without thread id and route.
Existing(map, key) == IF key \in DOMAIN map THEN map[key] ELSE NoEntry

\* An update function that does not carry the other field over.
UpdatedEntry_forgets(kind, existing, val) ==
  IF kind = "thread" THEN Entry(val, "") ELSE Entry("", val)

\* The entry the update functions of setThreadId and setLastRoute build.
UpdatedEntry(kind, existing, val) ==
  IF kind = "thread" THEN Entry(val, existing.lastRoute)
  ELSE Entry(existing.threadId, val)

\* this.op.catch(() => undefined): the then-callback runs whatever the
\* update before it did.
Recover(last) == "fulfilled"

\* update(fn): the callback is chained onto this.op, this.op becomes the
\* new promise, and the caller awaits this.op as it is now: its own.
update(t, kind, key, val) ==
  /\ opChain' = [opChain EXCEPT !.queue = Append(@, t)]
  /\ task' = [task EXCEPT ![t] =
                [@ EXCEPT !.pc = "queued", !.kind = kind, !.key = key, !.val = val]]
  /\ hist' = Append(hist, t)
  /\ UNCHANGED <<store, file>>

setThreadId(t, sessionKey, threadId) ==
  /\ task[t].pc = "idle"
  /\ \A b \in Tasks : b < t => task[b].pc # "idle"
  /\ update(t, "thread", normalizeKey(sessionKey), threadId)
  /\ UNCHANGED <<timer, timers, made, runs, wakeHandler, beat, core, g>>

setLastRoute(t, sessionKey, route) ==
  /\ task[t].pc = "idle"
  /\ \A b \in Tasks : b < t => task[b].pc # "idle"
  /\ update(t, "route", normalizeKey(sessionKey), route)
  /\ UNCHANGED <<timer, timers, made, runs, wakeHandler, beat, core, g>>

\* The chained callback of the oldest unsettled update, to the end of
\* "await this.ensureLoaded()"; it runs once the update before it settled.
updateBegin ==
  /\ opChain.queue # << >>
  /\ LET t == Head(opChain.queue) IN
     /\ task[t].pc = "queued"
     /\ IF Recover(opChain.last) = "fulfilled"
        THEN /\ store' = ensureLoaded(store, file)
             /\ task' = [task EXCEPT ![t] = [@ EXCEPT !.pc = "loading"]]
             /\ UNCHANGED opChain
        ELSE /\ task' = [task EXCEPT ![t] = [@ EXCEPT !.pc = "done", !.ok = FALSE]]
             /\ opChain' = [opChain EXCEPT !.queue = Tail(@)]
             /\ UNCHANGED store
  /\ UNCHANGED <<file, hist>>
  /\ UNCHANGED <<timer, timers, made, runs, wakeHandler, beat, core, g>>

\* The rest of the callback: fn(store), this.store = store, saveJsonFile,
\* which may throw; the caller's await of its promise ends with the entry
\* or with the error.
updateEnd(saved) ==
  /\ opChain.queue # << >>
  /\ LET t == Head(opChain.queue)
         updated == UpdatedEntry(task[t].kind, Existing(store.map, task[t].key),
                                 task[t].val)
     IN
     /\ task[t].pc = "loading"
     /\ store' = [store EXCEPT !.map = MapSet(@, task[t].key, updated)]
     /\ file' = IF saved THEN store'.map ELSE file
     /\ task' = [task EXCEPT ![t] =
                   [@ EXCEPT !.pc = "done", !.ran = TRUE, !.ok = saved,
                             !.out = IF saved THEN updated ELSE NoEntry]]
     /\ opChain' = [queue |-> Tail(opChain.queue),
                    last |-> IF saved THEN "fulfilled" ELSE "rejected"]
  /\ UNCHANGED hist
  /\ UNCHANGED <<timer, timers, made, runs, wakeHandler, beat, core, g>>

\* setThreadId and setLastRoute calls made at any time on one store.
InitStore == \E f \in StoredFiles : ClientInit /\ RuntimeWith(f)

NextStore ==
  \/ \E t \in Tasks, k \in SessionKeys, v \in StoredThreadIds : setThreadId(t, k, v)
  \/ \E t \in Tasks, k \in SessionKeys, r \in Routes : setLastRoute(t, k, r)
  \/ updateBegin
  \/ \E saved \in BOOLEAN : updateEnd(saved)

SpecStore == InitStore /\ [][NextStore]_vars

\* The place in hist of the last call of a kind on a key before place n, 0
\* if there is none.
LastCallBefore(kind, key, n) ==
  LET S == {i \in 1..(n - 1) : task[hist[i]].kind = kind /\ task[hist[i]].key = key}
  IN IF S = {} THEN 0 ELSE CHOOSE i \in S : \A j \in S : j <= i

\* Every update called has settled.
StoreQuiet == opChain.queue = << >>

\* C36: updates run one at a time in the order they were called: once all
\* have settled the entry of a key holds the thread id of the last
\* setThreadId and the route of the last setLastRoute on that key, whatever
\* the spelling of the key; a call that succeeds returns the entry its own
\* update built; and every update runs, also after one that failed.
C36_UpdatesSerialized ==
  /\ \A t \in Tasks : task[t].pc = "done" => task[t].ran
  /\ \A n \in 1..Len(hist) :
       LET t == hist[n]
           th == LastCallBefore("thread", task[t].key, n)
           ro == LastCallBefore("route", task[t].key, n)
       IN (task[t].pc = "done" /\ task[t].ok) =>
            /\ task[t].kind = "thread" =>
                 /\ task[t].out.threadId = task[t].val
                 /\ ro # 0 => task[t].out.lastRoute = task[hist[ro]].val
            /\ task[t].kind = "route" =>
                 /\ task[t].out.lastRoute = task[t].val
                 /\ th # 0 => task[t].out.threadId = task[hist[th]].val
  /\ StoreQuiet =>
       \A k \in {normalizeKey(sk) : sk \in SessionKeys} :
         LET th == LastCallBefore("thread", k, Len(hist) + 1)
             ro == LastCallBefore("route", k, Len(hist) + 1)
         IN /\ th # 0 => (k \in DOMAIN store.map
                            /\ store.map[k].threadId = task[hist[th]].val)
            /\ ro # 0 => (k \in DOMAIN store.map
                            /\ store.map[k].lastRoute = task[hist[ro]].val)

\* Three updates on two spellings of one key have settled, the second of
\* them failed to save: the entry holds the route of the first and the
\* thread id of the third.
C36_Witness ==
  /\ StoreQuiet
  /\ Len(hist) = 3
  /\ task[1].kind = "route" /\ task[1].ok
  /\ task[2].kind = "thread" /\ ~task[2].ok /\ task[2].ran
  /\ task[3].kind = "thread" /\ task[3].ok /\ task[3].val # task[2].val
  /\ \A t \in Tasks : task[t].key = <<"m">>
  /\ store.map[<<"m">>] = Entry(task[3].val, task[1].val)
  /\ task[3].out = store.map[<<"m">>]

\* ------------------------------------------------------------ ensureThread
\* ensureThread(sessionKey) to the first await inside sessions.get: the key
\* is normalized and ensureLoaded() has read the file.
ensureThread(t, sessionKey) ==
  /\ task[t].pc = "idle"
  /\ \A b \in Tasks : b < t => task[b].pc # "idle"
  /\ store' = ensureLoaded(store, file)
  /\ task' = [task EXCEPT ![t] =
                [@ EXCEPT !.pc = "getting", !.key = normalizeKey(sessionKey)]]
  /\ UNCHANGED <<file, opChain, hist>>
  /\ UNCHANGED <<timer, timers, made, runs, wakeHandler, beat, core, g>>

\* sessions.get returns this.store[key]; with a thread id in it ensureThread
\* calls codex.threadResume, without one codex.threadStart.
ensureThreadGot(t) ==
  /\ task[t].pc = "getting"
  /\ LET existing == Existing(store.map, task[t].key) IN
     task' = [task EXCEPT ![t] =
                [@ EXCEPT !.known = existing.threadId,
                          !.pc = IF existing.threadId # "" THEN "resuming"
                                 ELSE "starting"]]
  /\ UNCHANGED <<store, file, opChain, hist>>
  /\ UNCHANGED <<timer, timers, made, runs, wakeHandler, beat, core, g>>

\* codex.threadResume settles: fulfilled, ensureThread returns the stored
\* id; rejected, it goes on to codex.threadStart.
threadResumeSettled(t, resumed) ==
  /\ task[t].pc = "resuming"
  /\ task' = [task EXCEPT ![t] =
                IF resumed
                THEN [@ EXCEPT !.pc = "returned", !.ok = TRUE, !.got = task[t].known]
                ELSE [@ EXCEPT !.pc = "starting"]]
  /\ UNCHANGED <<store, file, opChain, hist>>
  /\ UNCHANGED <<timer, timers, made, runs, wakeHandler, beat, core, g>>

\* codex.threadStart settles: rejected ("" for no id), ensureThread rejects;
\* fulfilled with the id of a new thread, it calls sessions.setThreadId.
threadStartSettled(t, threadId) ==
  /\ task[t].pc = "starting"
  /\ IF threadId = ""
     THEN /\ task' = [task EXCEPT ![t] = [@ EXCEPT !.pc = "returned", !.ok = FALSE]]
          /\ UNCHANGED <<store, file, opChain, hist>>
     ELSE update(t, "thread", task[t].key, threadId)
  /\ UNCHANGED <<timer, timers, made, runs, wakeHandler, beat, core, g>>

\* ensureThread after "await sessions.setThreadId": return started.threadId,
\* or the rejection of setThreadId.
ensureThreadReturn(t) ==
  /\ task[t].pc = "done"
  /\ task' = [task EXCEPT ![t] =
                [@ EXCEPT !.pc = "returned",
                          !.got = IF task[t].ok THEN task[t].val ELSE ""]]
  /\ UNCHANGED <<store, file, opChain, hist>>
  /\ UNCHANGED <<timer, timers, made, runs, wakeHandler, beat, core, g>>

\* ensureThread calls made at any time (runTurn of the gateway, heartbeat,
\* cron) on the two spellings of one key and on another key; the process
\* resumes a thread or not and names the threads it starts.
NextThreads ==
  \/ \E t \in Tasks, k \in SessionKeys : ensureThread(t, k)
  \/ \E t \in Tasks : ensureThreadGot(t)
  \/ \E t \in Tasks, resumed \in BOOLEAN : threadResumeSettled(t, resumed)
  \/ \E t \in Tasks, id \in StoredThreadIds \cup {""} : threadStartSettled(t, id)
  \/ updateBegin
  \/ \E saved \in BOOLEAN : updateEnd(saved)
  \/ \E t \in Tasks : ensureThreadReturn(t)

SpecThreads == InitStore /\ [][NextThreads]_vars

\* C37: a resume that succeeds returns the stored id and starts no thread;
\* a resume that fails starts a thread, whose id is stored under the key
\* and returned; and once all ensureThread calls have returned, every call
\* that returned an id for a key returned the id stored under that key.
C37_CallersHoldStoredThread ==
  /\ [][\A t \in Tasks :
          threadResumeSettled(t, TRUE) =>
            (task'[t].pc = "returned" /\ task'[t].got = task[t].known
               /\ opChain' = opChain)]_vars
  /\ [][\A t \in Tasks :
          (task[t].known # "" /\ task[t].pc = "loading"
             /\ updateEnd(TRUE) /\ task'[t].pc = "done")
            => store'.map[task[t].key].threadId = task[t].val]_vars
  /\ [][\A t \in Tasks :
          (task[t].ok /\ ensureThreadReturn(t)) => task'[t].got = task[t].val]_vars
  /\ []((\A t \in Tasks : task[t].pc = "returned") =>
          \A t \in Tasks :
            task[t].ok => task[t].got = store.map[task[t].key].threadId)

====
